---- MODULE Spec2Model ----
(***************************************************************************)
(* A model of flytrap's peer monitor (src/src/ping): the wire codec of     *)
(* message.rs, the sequence counter of seq.rs, the observation buffer of   *)
(* status.rs and the worker of monitor.rs.                                 *)
(*                                                                         *)
(* Unsigned integers wider than TLC's own are kept at their width as       *)
(* little-endian tuples of 16-bit limbs: a u32 is <<lo, hi>>, a u64 is     *)
(* <<l0, l1, l2, l3>>.  A byte buffer is a sequence of 0..255.             *)
(***************************************************************************)
EXTENDS Integers, Sequences, FiniteSets, TLC

VARIABLES
    cx_pc,        \* codec harness: "start" | "written" | "read"
    cx_msg,       \* codec harness: the Message given to Message::write
    cx_tamper,    \* codec harness: what was done to the written bytes
    cx_buf,       \* codec harness: the buffer handed to Message::read
    cx_res,       \* codec harness: what Message::read did
    counter,      \* Counter(u32) of seq.rs
    counter_out,  \* what the last Counter::next did
    counter_calls, \* number of single Counter::next calls made so far
    obs,          \* buffer harness: an Observations<L>
    obs_before,   \* buffer harness: the buffer before the last add
    obs_added,    \* buffer harness: the observation last added
    peers,        \* MonitoredPeers: MachineId -> MonitoredPeer
    worker_seq,   \* Worker.seq, the worker's Counter
    waiting,      \* Worker::run's queue of peers waiting to be pinged
    resolving,    \* Worker::run's resolve task: "none" | "running" | "finished"
    elapsed,      \* Clock::elapsed, in seconds
    tasks,        \* the resolve tasks spawned and not yet ended
    close,        \* Monitor.close / Worker.close, the one-shot channel: "open" | "sent"
    worker,       \* the worker task: "running" | "stopped" | "failed" | "panicked"
    outbox,       \* the datagrams the last step handed to the socket
    guard,        \* the write guard (RefMut) the worker holds on a peer's entry, if any
    event,        \* the event the worker handled last, and its Result
    tm,           \* time harness: the last Timestamp subtraction and its outcome
    sel,          \* select harness: the event sources that are ready, the arm taken last
    lost,         \* probing: the sequence numbers of the probes that never reached their peer
    lock,         \* table locks: who else holds the peer's shard, the Reply the worker waits with
    poll          \* demo backend: the status-polling task, the shared slot and its readers

codecVars == <<cx_pc, cx_msg, cx_tamper, cx_buf, cx_res>>
seqVars == <<counter, counter_out, counter_calls>>
obsVars == <<obs, obs_before, obs_added>>
workerVars == <<peers, worker_seq, waiting, resolving, tasks, close, elapsed, worker, outbox, guard, event>>
vars ==
    <<cx_pc, cx_msg, cx_tamper, cx_buf, cx_res, counter, counter_out, counter_calls,
      obs, obs_before, obs_added,
      peers, worker_seq, waiting, resolving, tasks, close, elapsed, worker, outbox, guard, event, tm, sel, lost, lock, poll>>

----
\* Option<T>, and the outcome of a call that may panic.

None == [some |-> FALSE]
Some(x) == [some |-> TRUE, val |-> x]

Panic(why) == [kind |-> "Panic", why |-> why]
NotCalled == [kind |-> "NotCalled"]
Ok(x) == [kind |-> "Ok", val |-> x]

----
\* Fixed-width integers as 16-bit limbs.

Limb == 256 * 256

U32(lo, hi) == <<lo, hi>>
U64(l0, l1, l2, l3) == <<l0, l1, l2, l3>>

U32_ZERO == <<0, 0>>
U64_ZERO == <<0, 0, 0, 0>>
U32_MAX == <<65535, 65535>>
U64_MAX == <<65535, 65535, 65535, 65535>>

\* a < b as 64-bit unsigned numbers
U64_lt(a, b) ==
    \/ a[4] < b[4]
    \/ a[4] = b[4] /\ a[3] < b[3]
    \/ a[4] = b[4] /\ a[3] = b[3] /\ a[2] < b[2]
    \/ a[4] = b[4] /\ a[3] = b[3] /\ a[2] = b[2] /\ a[1] < b[1]

\* a + b: the sum modulo 2^64 and whether it overflowed
U64_add(a, b) ==
    LET s1 == a[1] + b[1]
        s2 == a[2] + b[2] + s1 \div Limb
        s3 == a[3] + b[3] + s2 \div Limb
        s4 == a[4] + b[4] + s3 \div Limb
    IN  [overflow |-> s4 >= Limb, val |-> <<s1 % Limb, s2 % Limb, s3 % Limb, s4 % Limb>>]

\* a - b: the difference modulo 2^64 and whether it underflowed
U64_sub(a, b) ==
    LET d1 == a[1] - b[1]
        d2 == a[2] - b[2] - (IF d1 < 0 THEN 1 ELSE 0)
        d3 == a[3] - b[3] - (IF d2 < 0 THEN 1 ELSE 0)
        d4 == a[4] - b[4] - (IF d3 < 0 THEN 1 ELSE 0)
    IN  [underflow |-> d4 < 0,
         val |-> <<(d1 + Limb) % Limb, (d2 + Limb) % Limb, (d3 + Limb) % Limb, (d4 + Limb) % Limb>>]

\* u64::saturating_sub
saturating_sub(a, b) == IF U64_sub(a, b).underflow THEN U64_ZERO ELSE U64_sub(a, b).val

\* u32::wrapping_add(1)
wrapping_add_1(c) ==
    IF c[1] < Limb - 1 THEN <<c[1] + 1, c[2]>>
    ELSE <<0, (c[2] + 1) % Limb>>

----
\* bytes::BufMut / bytes::Buf, as message.rs uses them.  `pos` is the
\* 1-based index of the cursor; a get_* with too few bytes left panics.

remaining(data, pos) == Len(data) - pos + 1

put_u16_le(w) == <<w % 256, w \div 256>>
put_u32_le(v) == put_u16_le(v[1]) \o put_u16_le(v[2])
put_u64_le(v) == put_u16_le(v[1]) \o put_u16_le(v[2]) \o put_u16_le(v[3]) \o put_u16_le(v[4])
put_u16_be(w) == <<w \div 256, w % 256>>
put_u64(v) == put_u16_be(v[4]) \o put_u16_be(v[3]) \o put_u16_be(v[2]) \o put_u16_be(v[1])
put_u32_ne_0 == <<0, 0, 0, 0>>

get_u16_le(data, pos) == data[pos] + 256 * data[pos + 1]
get_u16_be(data, pos) == 256 * data[pos] + data[pos + 1]
get_u32_le(data, pos) == <<get_u16_le(data, pos), get_u16_le(data, pos + 2)>>
get_u64_le(data, pos) ==
    <<get_u16_le(data, pos), get_u16_le(data, pos + 2),
      get_u16_le(data, pos + 4), get_u16_le(data, pos + 6)>>
get_u64(data, pos) ==
    <<get_u16_be(data, pos + 6), get_u16_be(data, pos + 4),
      get_u16_be(data, pos + 2), get_u16_be(data, pos)>>

----
\* seq.rs

\* Seq::new: panics on zero.
Seq_new(value) == IF value = U32_ZERO THEN Panic("seq values cannot be zero") ELSE Ok(value)

\* Seq::receive: None on zero.
Seq_receive(value) == IF value = U32_ZERO THEN None ELSE Some(value)

\* seed(): a random byte shifted to bits 20..27; Counter::new ors in bit 0.
Counter_new(b) == U32(1, b * 16)

\* Counter::next that hands out its value and keeps it.
Counter_next_Stuck(c) == [counter |-> c, seq |-> Seq_new(c)]

\* Counter::next: the value before the increment goes through Seq::new.
Counter_next(c) == [counter |-> wrapping_add_1(c), seq |-> Seq_new(c)]

----
\* MachineId: a NonZeroU64 (machine.rs).  from_raw / into_raw are called by
\* message.rs and are not among the sources; zero is the one invalid value.

MachineId_from_raw(v) == IF v = U64_ZERO THEN None ELSE Some(v)
MachineId_into_raw(id) == id

----
\* message.rs

MAGIC == U64(28672, 29281, 31092, 26220)   \* u64::from_be_bytes(*b"flytrap\0")
MIN_LEN == 32
TYPE_REQUEST == 16
TYPE_REPLY == 17

Timestamp_new(v) == v
Timestamp_into_raw(t) == t

OptionTimestamp_read(last) == IF last = U64_ZERO THEN None ELSE Some(Timestamp_new(last))
OptionTimestamp_write(last) == IF last.some THEN Timestamp_into_raw(last.val) ELSE U64_ZERO

Request(sent, last) == [type |-> "Request", sent |-> sent, last |-> last]
Reply(to, sent, received, last) ==
    [type |-> "Reply", to |-> to, sent |-> sent, received |-> received, last |-> last]
Message(from, to, seq, contents) == [from |-> from, to |-> to, seq |-> seq, contents |-> contents]

Request_write(c) ==
    put_u64_le(Timestamp_into_raw(c.sent)) \o put_u64_le(OptionTimestamp_write(c.last))

Reply_write(c) ==
    put_u32_le(c.to) \o put_u32_ne_0 \o put_u64_le(Timestamp_into_raw(c.sent))
        \o put_u64_le(Timestamp_into_raw(c.received)) \o put_u64_le(OptionTimestamp_write(c.last))

Contents_discriminant(c) == IF c.type = "Request" THEN TYPE_REQUEST ELSE TYPE_REPLY

Contents_write(c) ==
    put_u16_le(Contents_discriminant(c))
        \o (IF c.type = "Request" THEN Request_write(c) ELSE Reply_write(c))

\* Message::write with the identities written little-endian.
Message_write_IdsLe(m) ==
    LET contents == Contents_write(m.contents)
    IN  put_u64(MAGIC) \o put_u64_le(MachineId_into_raw(m.from))
            \o put_u64_le(MachineId_into_raw(m.to))
            \o put_u32_le(m.seq) \o put_u16_le(Len(contents)) \o contents

Message_write(m) ==
    LET contents == Contents_write(m.contents)
    IN  put_u64(MAGIC) \o put_u64(MachineId_into_raw(m.from)) \o put_u64(MachineId_into_raw(m.to))
            \o put_u32_le(m.seq) \o put_u16_le(Len(contents)) \o contents

Request_read(data, pos) ==
    IF remaining(data, pos) < 16 THEN Panic("advance out of bounds")
    ELSE Ok(Request(Timestamp_new(get_u64_le(data, pos)),
                    OptionTimestamp_read(get_u64_le(data, pos + 8))))

Reply_read(data, pos) ==
    IF remaining(data, pos) < 8 THEN Panic("advance out of bounds")
    ELSE IF get_u32_le(data, pos + 4) # U32_ZERO THEN Panic("assert_eq reserved padding")
    ELSE IF remaining(data, pos) < 32 THEN Panic("advance out of bounds")
    ELSE LET to == Seq_new(get_u32_le(data, pos))
         IN  IF to.kind = "Panic" THEN to
             ELSE Ok(Reply(to.val,
                           Timestamp_new(get_u64_le(data, pos + 8)),
                           Timestamp_new(get_u64_le(data, pos + 16)),
                           OptionTimestamp_read(get_u64_le(data, pos + 24))))

\* Contents::read whose match has no arm for an unknown discriminant.
Contents_read_NoDefault(data, pos) ==
    IF remaining(data, pos) < 2 THEN Panic("advance out of bounds")
    ELSE LET type == get_u16_le(data, pos)
             c == IF type = TYPE_REQUEST THEN Request_read(data, pos + 2)
                  ELSE Reply_read(data, pos + 2)
         IN  IF c.kind = "Panic" THEN c ELSE Ok(Some(c.val))

\* Ok(None) for an unknown discriminant, Ok(Some(contents)) otherwise.
Contents_read(data, pos) ==
    IF remaining(data, pos) < 2 THEN Panic("advance out of bounds")
    ELSE LET type == get_u16_le(data, pos)
             c == IF type = TYPE_REQUEST THEN Request_read(data, pos + 2)
                  ELSE Reply_read(data, pos + 2)
         IN  IF type \notin {TYPE_REQUEST, TYPE_REPLY} THEN Ok(None)
             ELSE IF c.kind = "Panic" THEN c
             ELSE Ok(Some(c.val))

\* Ok(None), Ok(Some(message)) or a panic.
Message_read(data) ==
    IF remaining(data, 1) < MIN_LEN \/ get_u64(data, 1) # MAGIC THEN Ok(None)
    ELSE LET from == MachineId_from_raw(get_u64(data, 9))
             to == MachineId_from_raw(get_u64(data, 17))
             seq == get_u32_le(data, 25)
             len == get_u16_le(data, 29)
             contents == Contents_read(data, 31)
         IN  IF ~from.some \/ ~to.some THEN Ok(None)
             ELSE IF len < remaining(data, 31) THEN Ok(None)
             ELSE IF contents.kind = "Panic" THEN contents
             ELSE IF ~contents.val.some THEN Ok(None)
             ELSE IF ~Seq_receive(seq).some THEN Panic("invalid Seq value")
             ELSE Ok(Some(Message(from.val, to.val, Seq_receive(seq).val, contents.val.val)))

----
\* The values the codec harness draws from.

T == U64(0, 25399, 56737, 439)    \* message.rs test: 2023-12-04 00:00:00
IdA == U64(57560, 2500, 33043, 23)     \* 17811309c4e0d8
IdB == U64(20536, 5315, 33502, 110)    \* 6e82de14c35038

SampleIds == {IdA, IdB}
SampleSeqs == {U32(4097, 0), U32(8193, 0), U32_MAX}
SampleTimes == {U64_ZERO, T, U64_MAX}
SampleLasts == {None} \cup {Some(t) : t \in SampleTimes}

SampleContents ==
    {Request(sent, last) : sent \in SampleTimes, last \in SampleLasts}
        \cup {Reply(to, sent, received, last) :
                to \in {U32(4097, 0), U32(0, 1)}, sent \in {T}, received \in {T, U64_MAX},
                last \in SampleLasts}

SampleMessages ==
    {Message(from, to, seq, c) :
        from \in SampleIds, to \in SampleIds, seq \in SampleSeqs, c \in SampleContents}

\* What a sender or the network may do to an encoded message.
Zeroed(buf, first, last) == [i \in 1..Len(buf) |-> IF i >= first /\ i <= last THEN 0 ELSE buf[i]]
WithByte(buf, at, b) == [i \in 1..Len(buf) |-> IF i = at THEN b ELSE buf[i]]

TamperKinds ==
    {"none", "empty", "cut8", "cut31", "cut32", "cut40", "cutlast", "magic", "from0", "to0",
     "seq0", "len0", "lenmax", "type", "replyto0", "padding", "extra"}

Tamper(kind, buf) ==
    CASE kind = "none" -> buf
      [] kind = "empty" -> <<>>
      [] kind = "cut8" -> SubSeq(buf, 1, 8)
      [] kind = "cut31" -> SubSeq(buf, 1, 31)
      [] kind = "cut32" -> SubSeq(buf, 1, 32)
      [] kind = "cut40" -> SubSeq(buf, 1, 40)
      [] kind = "cutlast" -> SubSeq(buf, 1, Len(buf) - 1)
      [] kind = "magic" -> WithByte(buf, 8, 1)
      [] kind = "from0" -> Zeroed(buf, 9, 16)
      [] kind = "to0" -> Zeroed(buf, 17, 24)
      [] kind = "seq0" -> Zeroed(buf, 25, 28)
      [] kind = "len0" -> Zeroed(buf, 29, 30)
      [] kind = "lenmax" -> WithByte(WithByte(buf, 29, 255), 30, 255)
      [] kind = "type" -> WithByte(buf, 31, 18)
      [] kind = "replyto0" -> Zeroed(buf, 33, 36)
      [] kind = "padding" -> WithByte(buf, 37, 1)
      [] kind = "extra" -> buf \o <<0>>

----
\* The codec harness: write a message, let the bytes be tampered with, read.

CodecIdle == cx_pc = "off" /\ cx_msg = None /\ cx_tamper = "none" /\ cx_buf = <<>> /\ cx_res = NotCalled

InitCodec ==
    /\ cx_pc = "start"
    /\ cx_msg \in SampleMessages
    /\ cx_tamper = "none"
    /\ cx_buf = <<>>
    /\ cx_res = NotCalled

CodecWrite ==
    /\ cx_pc = "start"
    /\ cx_buf' = Message_write(cx_msg)
    /\ cx_pc' = "written"
    /\ UNCHANGED <<cx_msg, cx_tamper, cx_res>>
    /\ UNCHANGED <<seqVars, obsVars, workerVars, tm, sel, lost, lock, poll>>

CodecTamper ==
    /\ cx_pc = "written"
    /\ cx_tamper = "none"
    /\ \E kind \in TamperKinds \ {"none"} :
        /\ cx_tamper' = kind
        /\ cx_buf' = Tamper(kind, cx_buf)
    /\ UNCHANGED <<cx_pc, cx_msg, cx_res>>
    /\ UNCHANGED <<seqVars, obsVars, workerVars, tm, sel, lost, lock, poll>>

CodecRead ==
    /\ cx_pc = "written"
    /\ cx_res' = Message_read(cx_buf)
    /\ cx_pc' = "read"
    /\ UNCHANGED <<cx_msg, cx_tamper, cx_buf>>
    /\ UNCHANGED <<seqVars, obsVars, workerVars, tm, sel, lost, lock, poll>>

NextCodec == CodecWrite \/ CodecTamper \/ CodecRead

----
\* The counter harness: Counter::new, then calls of Counter::next.

SeedBytes == {0, 1, 128, 255}
MaxNextCalls == 8

\* Values a run of next calls passes on its way up: a carry into the high
\* limb, the last two values before the counter wraps.
Landmarks == {U32(65535, 0), U32(65534, 65535), U32_MAX}

\* a <= b as 32-bit unsigned numbers
U32_le(a, b) == a[2] < b[2] \/ (a[2] = b[2] /\ a[1] <= b[1])

SeqIdle == counter = U32_ZERO /\ counter_out = NotCalled /\ counter_calls = 0

InitSeq ==
    /\ \E b \in SeedBytes : counter = Counter_new(b)
    /\ counter_out = NotCalled
    /\ counter_calls = 0

\* One call of Counter::next.  self.0 is assigned before Seq::new runs.
SeqNext ==
    /\ counter_out.kind # "Panic"
    /\ counter_calls < MaxNextCalls
    /\ counter' = Counter_next(counter).counter
    /\ counter_out' = Counter_next(counter).seq
    /\ counter_calls' = counter_calls + 1
    /\ UNCHANGED <<codecVars, obsVars, workerVars, tm, sel, lost, lock, poll>>

\* A run of calls of Counter::next that ends with the call returning `upto`:
\* the calls return counter, counter + 1, ..., upto, none of them zero.
SeqNextRun ==
    /\ counter_out.kind # "Panic"
    /\ counter # U32_ZERO
    /\ \E upto \in Landmarks :
        /\ U32_le(counter, upto)
        /\ counter' = Counter_next(upto).counter
        /\ counter_out' = Counter_next(upto).seq
    /\ UNCHANGED counter_calls
    /\ UNCHANGED <<codecVars, obsVars, workerVars, tm, sel, lost, lock, poll>>

NextSeq == SeqNext \/ SeqNextRun

----
\* time.rs

Second == U64(51712, 15258, 0, 0)    \* Duration::from_secs(1), as ns(duration)

RECURSIVE Seconds(_)
Seconds(n) == IF n = 0 THEN U64_ZERO ELSE U64_add(Seconds(n - 1), Second).val

\* Clock::offset as Clock::new captured it: the time since 2020-01-01.
ClockOffset == T

\* Clock::now / Clock::enter: offset + elapsed
Clock_now(e) == U64_add(ClockOffset, Seconds(e)).val

\* impl Sub<Duration> for Timestamp: self.0 - ns(duration)
Timestamp_sub_Duration(t, d) == U64_sub(t, d)

\* Timestamp - Duration as the build makes it: with overflow checks (a
\* debug build) an underflow panics, without them (a release build) it wraps.
Timestamp_sub_Duration_built(t, d, overflow_checks) ==
    LET r == Timestamp_sub_Duration(t, d)
    IN  IF r.underflow /\ overflow_checks
        THEN Panic("attempt to subtract with overflow")
        ELSE Ok(Timestamp_new(r.val))

\* Timestamp - Timestamp with wrapping_sub.
Timestamp_sub_Wrapping(a, b) == U64_sub(a, b).val

\* impl Sub<Timestamp> for Timestamp: saturating
Timestamp_sub(a, b) == saturating_sub(a, b)

----
\* status.rs

L == 2    \* Observations<L>: the capacity of a peer's history

Available(latency) == [tag |-> "Available", d |-> latency]
Unavailable(elapsed_) == [tag |-> "Unavailable", d |-> elapsed_]
Observation(time, status) == [time |-> time, status |-> status]

\* Observations::add with a buffer that refuses the new entry when full.
Observations_add_Saturating(buf, latest) ==
    IF Len(buf) = L THEN buf ELSE Append(buf, latest)

\* Observations::add that pushes at the front of the buffer.
Observations_add_Front(buf, latest) ==
    IF Len(buf) = L THEN <<latest>> \o SubSeq(buf, 1, L - 1) ELSE <<latest>> \o buf

\* Observations::add: push_back on a Wrapping ArrayDeque
Observations_add(buf, latest) ==
    IF Len(buf) = L THEN Append(Tail(buf), latest) ELSE Append(buf, latest)

\* Observations::reachable: the time of the newest Available observation
Observations_reachable(buf) ==
    LET avail == {i \in 1..Len(buf) : buf[i].status.tag = "Available"}
    IN  IF avail = {} THEN None
        ELSE Some(buf[CHOOSE i \in avail : \A j \in avail : j <= i].time)

Observations_is_full(buf) == Len(buf) = L

\* Observations::latency_observations: (time, latency) of the Available ones
Observations_latency_observations(buf) ==
    SelectSeq(buf, LAMBDA o : o.status.tag = "Available")

\* Observations::weighted_latency_observations.  The weight exp(-age) of an
\* observation, age = (t1 - t) / d with d = t1 - t0, is kept as the pair
\* of nanosecond counts it is computed from; with d = 0 the quotient is
\* 0/0 = NaN or x/0 = inf, and the weight NaN or 0.
Observations_weighted_latency_observations(buf) ==
    LET t0 == buf[1].time
        t1 == buf[Len(buf)].time
        d == Timestamp_sub(t1, t0)
        lat == Observations_latency_observations(buf)
    IN  [i \in 1..Len(lat) |->
            [age |-> <<Timestamp_sub(t1, lat[i].time), d>>,
             time |-> lat[i].time, latency |-> lat[i].status.d]]

\* max of two (Timestamp, Duration) pairs in the derived tuple order
LatestOf(a, b) ==
    IF U64_lt(a.time, b.time) \/ (a.time = b.time /\ U64_lt(a.latency, b.latency))
    THEN b ELSE a

RECURSIVE LatestIn(_)
LatestIn(values) ==
    IF Len(values) = 1 THEN values[1]
    ELSE LatestOf(values[1], LatestIn(Tail(values)))

\* Latency::compute.  The average is the weighted sum over the total
\* weight, kept here as the list of (age, latency) it is computed from.
\* With a zero time window every weight is NaN or 0, the quotient is NaN
\* and Duration::from_secs_f64 panics.
Latency_compute(values) ==
    IF values = <<>> THEN Ok(None)
    ELSE IF \E i \in 1..Len(values) : values[i].age[2] = U64_ZERO
    THEN Panic("Duration::from_secs_f64: NaN")
    ELSE LET latest == LatestIn(values)
         IN  Ok(Some([average |-> [i \in 1..Len(values) |->
                                     [age |-> values[i].age, latency |-> values[i].latency]],
                      latest |-> latest.latency,
                      time |-> latest.time]))

\* a \div n for a 64-bit a and 0 < n <= 1000, limb by limb
U64_div(a, n) ==
    LET q4 == a[4] \div n
        r4 == a[4] % n
        q3 == (r4 * Limb + a[3]) \div n
        r3 == (r4 * Limb + a[3]) % n
        q2 == (r3 * Limb + a[2]) \div n
        r2 == (r3 * Limb + a[2]) % n
        q1 == (r2 * Limb + a[1]) \div n
    IN  <<q1, q2, q3, q4>>

\* Duration::as_secs_f64 to the millisecond, for durations below 2^31 ms:
\* the f64 arithmetic of the estimator is followed in milliseconds and in
\* weights of six decimal places.
as_millis(d) ==
    LET ms == U64_div(U64_div(d, 1000), 1000)
    IN  ms[1] + Limb * ms[2]

WeightOne == 1000000

\* The terms from the k-th on of the series of exp(-x / 1000), scaled by
\* WeightOne, `term` being the (k - 1)-th.
RECURSIVE ExpSeries(_, _, _)
ExpSeries(x, k, term) ==
    LET next == (term * x) \div (1000 * k)
    IN  IF next = 0 THEN 0 ELSE ExpSeries(x, k + 1, next) * (-1) - next

\* f64::exp(-age) for the age (t1 - t) / d of an observation, 0 <= age <= 1
exp_neg(age) ==
    LET x == (as_millis(age[1]) * 1000) \div as_millis(age[2])
    IN  WeightOne + ExpSeries(x, 1, WeightOne)

RECURSIVE SumOver(_, _)
SumOver(f, n) == IF n = 0 THEN 0 ELSE f[n] + SumOver(f, n - 1)

\* Latency::compute: weighted_latency_sum / total_weight, in milliseconds,
\* for the average of an estimate over two or more observations
Latency_average_millis(average) ==
    LET w == [i \in 1..Len(average) |-> exp_neg(average[i].age) \div 100]
        wl == [i \in 1..Len(average) |-> w[i] * as_millis(average[i].latency)]
    IN  SumOver(wl, Len(average)) \div SumOver(w, Len(average))

\* Observations::latency that takes the duration of a single observation
\* for its latency whatever its status.
Observations_latency_AnyStatus(buf) ==
    CASE Len(buf) = 0 -> Ok(None)
      [] Len(buf) = 1 ->
            Ok(Some([average |-> buf[1].status.d, latest |-> buf[1].status.d,
                     time |-> buf[1].time]))
      [] OTHER -> Latency_compute(Observations_weighted_latency_observations(buf))

\* Observations::latency
Observations_latency(buf) ==
    CASE Len(buf) = 0 -> Ok(None)
      [] Len(buf) = 1 ->
            IF buf[1].status.tag = "Available"
            THEN Ok(Some([average |-> buf[1].status.d, latest |-> buf[1].status.d,
                          time |-> buf[1].time]))
            ELSE Ok(None)
      [] OTHER -> Latency_compute(Observations_weighted_latency_observations(buf))

----
\* monitor.rs: MonitoredPeer

S == 1    \* ArrayDeque<Sent, S, Saturating>: the capacity of a peer's outstanding probes

PingTimeoutSecs == 2    \* Config::default().ping_timeout
IdleTimeoutSecs == 5    \* Config::default().idle_timeout
PingTimeout == Seconds(PingTimeoutSecs)
IdleTimeout == Seconds(IdleTimeoutSecs)

Sent(seq, time) == [seq |-> seq, time |-> time]

MonitoredPeer_new == [seen |-> None, observations |-> <<>>, sent |-> <<>>]

\* MonitoredPeer::add on a deque that drops its oldest entry when full.
MonitoredPeer_add_Wrapping(peer, seq, time) ==
    IF Len(peer.sent) = S
    THEN [err |-> FALSE, peer |-> [peer EXCEPT !.sent = Append(Tail(@), Sent(seq, time))]]
    ELSE [err |-> FALSE, peer |-> [peer EXCEPT !.sent = Append(@, Sent(seq, time))]]

\* MonitoredPeer::add: push_back on a Saturating ArrayDeque
MonitoredPeer_add(peer, seq, time) ==
    IF Len(peer.sent) = S THEN [err |-> TRUE, peer |-> peer]
    ELSE [err |-> FALSE, peer |-> [peer EXCEPT !.sent = Append(@, Sent(seq, time))]]

\* ArrayDeque::swap_remove_back: the last entry takes the place of entry i
swap_remove_back(deque, i) ==
    [j \in 1..(Len(deque) - 1) |-> IF j = i THEN deque[Len(deque)] ELSE deque[j]]

\* MonitoredPeer::receive that records an observation for every Reply.
MonitoredPeer_receive_Always(peer, reply, now) ==
    [peer EXCEPT !.seen = Some(now),
                 !.observations = Observations_add(@, Observation(now, Available(U64_ZERO)))]

\* MonitoredPeer::receive that takes the latency from the Reply's own
\* timestamps (received - sent) instead of the local send record.
MonitoredPeer_receive_ReplyTimes(peer, reply, now) ==
    LET found == {i \in 1..Len(peer.sent) : peer.sent[i].seq = reply.to}
        i == CHOOSE k \in found : \A j \in found : k <= j
        latency == Timestamp_sub(reply.received, reply.sent)
    IN  IF found = {} THEN [peer EXCEPT !.seen = Some(now)]
        ELSE [peer EXCEPT !.seen = Some(now),
                          !.sent = swap_remove_back(@, i),
                          !.observations = Observations_add(@, Observation(now, Available(latency)))]

\* MonitoredPeer::receive
MonitoredPeer_receive(peer, reply, now) ==
    LET found == {i \in 1..Len(peer.sent) : peer.sent[i].seq = reply.to}
        i == CHOOSE k \in found : \A j \in found : k <= j
        latency == Timestamp_sub(now, peer.sent[i].time)
    IN  IF found = {} THEN [peer EXCEPT !.seen = Some(now)]
        ELSE [peer EXCEPT !.seen = Some(now),
                          !.sent = swap_remove_back(@, i),
                          !.observations = Observations_add(@, Observation(now, Available(latency)))]

RECURSIVE AddEach(_, _)
AddEach(buf, news) ==
    IF news = <<>> THEN buf ELSE AddEach(Observations_add(buf, Head(news)), Tail(news))

\* MonitoredPeer::purge_stale that keeps every outstanding probe.
MonitoredPeer_purge_stale_Never(peer, now, timeout) == peer

\* MonitoredPeer::purge_stale whose cutoff test is `sent.time > cutoff`.
MonitoredPeer_purge_stale_Strict(peer, now, timeout) ==
    LET cutoff == Timestamp_sub_Duration(now, timeout).val
        keep(sent) == U64_lt(cutoff, sent.time)
        stale == SelectSeq(peer.sent, LAMBDA sent : ~keep(sent))
    IN  [peer EXCEPT
            !.sent = SelectSeq(@, keep),
            !.observations =
                AddEach(@, [k \in 1..Len(stale) |->
                    Observation(now, Unavailable(Timestamp_sub(now, stale[k].time)))])]

\* MonitoredPeer::purge_stale: retain visits the deque front to back
MonitoredPeer_purge_stale(peer, now, timeout) ==
    LET cutoff == Timestamp_sub_Duration(now, timeout).val
        keep(sent) == ~U64_lt(sent.time, cutoff)
        stale == SelectSeq(peer.sent, LAMBDA sent : ~keep(sent))
    IN  [peer EXCEPT
            !.sent = SelectSeq(@, keep),
            !.observations =
                AddEach(@, [k \in 1..Len(stale) |->
                    Observation(now, Unavailable(Timestamp_sub(now, stale[k].time)))])]

----
\* monitor.rs: Worker

Local == U64(24680, 54195, 36573, 20)    \* 148eddd3b36068, this machine
Remote == {IdA}                          \* the peers discovery may report

WorkerSeedBytes == {255}
MaxSeq == 2      \* the worker calls Counter::next at most this often
Horizon == 4     \* no clock tick once this many seconds have elapsed

\* A loop that goes on selecting after it broke or returned.
Running_Always == TRUE

Running == worker = "running"

\* Monitor::stop: what awaiting the worker's JoinHandle yields, by how run ended
Monitor_stop(task) ==
    CASE task = "stopped" -> "Ok"              \* run returned Ok(elapsed)
      [] task = "failed" -> "Err"              \* run returned Err(err)
      [] task = "panicked" -> "Interrupted"    \* JoinError, mapped to ErrorKind::Interrupted
      [] OTHER -> "Pending"

Now == Clock_now(elapsed)

\* The datagrams the socket may deliver.
\* Replies acknowledge the first or second Seq of the worker's counter, or
\* one it never issued.
ReplyTos == {U32(k, 255 * 16) : k \in 1..2} \cup {U32(4097, 0)}
InboundContents == {Request(T, None)} \cup {Reply(to, T, T, None) : to \in ReplyTos}
InboundMessages == {Message(IdA, Local, U32(7, 0), c) : c \in InboundContents}
ForeignMessages == {Message(IdA, IdB, U32(7, 0), Request(T, None))}
BaseRequest == Message_write(Message(IdA, Local, U32(7, 0), Request(T, None)))
MalformedDatagrams == {Tamper(kind, BaseRequest) : kind \in {"magic", "cut32", "seq0"}}
Datagrams ==
    {Message_write(m) : m \in InboundMessages \cup ForeignMessages} \cup MalformedDatagrams

\* Message::read of each of them (Worker::receive's first step)
Decoded == [data \in Datagrams |-> Message_read(data)]

IsRequestToLocal(data) ==
    /\ Decoded[data].kind = "Ok" /\ Decoded[data].val.some
    /\ Decoded[data].val.val.to = Local
    /\ Decoded[data].val.val.contents.type = "Request"

WorkerIdle ==
    /\ peers = <<>> /\ worker_seq = U32_ZERO /\ waiting = <<>> /\ resolving = "none"
    /\ tasks = 0 /\ close = "open"
    /\ elapsed = 0 /\ worker = "off" /\ outbox = <<>> /\ guard = None
    /\ event = [kind |-> "none"]

\* The time harness at rest
TimeIdle == tm = [op |-> "none"]

\* Every probe handed to the socket has reached its peer
NoneLost == lost = {}

\* No concurrent operation holds a lock of the table
LockIdle == lock = [holder |-> "none", blocked |-> None]

\* No status-polling task
PollIdle == poll = [pc |-> "off"]

\* The select harness at rest
SelectIdle == sel = [datagrams |-> 0, resolve |-> FALSE, ping |-> FALSE, shutdown |-> FALSE,
                     taken |-> "off", raced |-> {}]

\* Monitor::start and Worker::new
InitWorker ==
    /\ peers = <<>>
    /\ \E b \in WorkerSeedBytes : worker_seq = Counter_new(b)
    /\ waiting = <<>>
    /\ resolving = "none"
    /\ tasks = 0
    /\ close = "open"
    /\ elapsed = 0
    /\ worker = "running"
    /\ outbox = <<>>
    /\ guard = None
    /\ event = [kind |-> "none"]

\* Worker::receive for one datagram: what becomes of the peer table, the
\* counter, the socket and the task.  `busy`: the sender's shard of the table
\* is locked by a concurrent status() or resolve; `io`: send_to succeeds.
Worker_receive(data, busy, io) ==
    LET now == Now
        read == Decoded[data]
        same == [peers |-> peers, seq |-> worker_seq, out |-> <<>>]
    IN  IF read.kind = "Panic" THEN same @@ [result |-> "Panic"]
        ELSE IF ~read.val.some THEN same @@ [result |-> "InvalidData"]
        ELSE LET message == read.val.val
                 from == message.from
                 c == message.contents
             IN  IF message.to # Local THEN same @@ [result |-> "InvalidData"]
                 ELSE IF c.type = "Request"
                 THEN LET present == from \in DOMAIN peers /\ ~busy
                          last == IF present THEN peers[from].seen ELSE None
                          seen == IF present THEN [peers EXCEPT ![from].seen = Some(now)]
                                  ELSE peers
                          next == Counter_next(worker_seq)
                          reply == Message(Local, from, next.seq.val,
                                           Reply(message.seq, c.sent, now, last))
                      IN  IF next.seq.kind = "Panic"
                          THEN [peers |-> seen, seq |-> next.counter, out |-> <<>>,
                                result |-> "Panic"]
                          ELSE [peers |-> seen, seq |-> next.counter,
                                out |-> IF io THEN <<[dest |-> from, bytes |-> Message_write(reply)]>>
                                        ELSE <<>>,
                                result |-> IF io THEN "Ok" ELSE "IoError"]
                 ELSE IF from \in DOMAIN peers
                 THEN [peers |-> [peers EXCEPT ![from] = MonitoredPeer_receive(@, c, now)],
                       seq |-> worker_seq, out |-> <<>>, result |-> "Ok"]
                 ELSE same @@ [result |-> "Ok"]

\* select!: recv_from returned a datagram
Receive ==
    /\ Running
    /\ \E data \in Datagrams :
       \E busy \in IF IsRequestToLocal(data) /\ Decoded[data].val.val.from \in DOMAIN peers
                    THEN BOOLEAN ELSE {FALSE} :
       \E io \in IF IsRequestToLocal(data) THEN BOOLEAN ELSE {TRUE} :
       \E r \in {Worker_receive(data, busy, io)} :
            /\ r.seq[1] <= MaxSeq + 1
            /\ peers' = r.peers
            /\ worker_seq' = r.seq
            /\ outbox' = r.out
            /\ worker' = IF r.result = "Panic" THEN "panicked" ELSE worker
            /\ event' = [kind |-> "recv", data |-> data, busy |-> busy, result |-> r.result]
    /\ UNCHANGED <<waiting, resolving, tasks, close, elapsed>>
    /\ UNCHANGED <<codecVars, seqVars, obsVars, guard, tm, sel, lost, lock, poll>>

\* select!: recv_from returned an error
ReceiveError ==
    /\ Running
    /\ worker' = "failed"
    /\ outbox' = <<>>
    /\ event' = [kind |-> "recv_error"]
    /\ UNCHANGED <<peers, worker_seq, waiting, resolving, tasks, close, elapsed>>
    /\ UNCHANGED <<codecVars, seqVars, obsVars, guard, tm, sel, lost, lock, poll>>

\* Worker::ping that makes an entry for a machine it does not find.
Worker_ping_Upsert(id, busy, io) ==
    [peers |-> [k \in DOMAIN peers \cup {id} |->
                    IF k \in DOMAIN peers THEN peers[k] ELSE MonitoredPeer_new],
     seq |-> Counter_next(worker_seq).counter, out |-> <<>>,
     result |-> IF id \in DOMAIN peers THEN "WouldBlock" ELSE "NotFound"]

\* Worker::ping
Worker_ping(id, busy, io) ==
    LET now == Now
        next == Counter_next(worker_seq)
        same == [peers |-> peers, seq |-> next.counter, out |-> <<>>]
    IN  IF next.seq.kind = "Panic" THEN same @@ [result |-> "Panic"]
        ELSE IF id \notin DOMAIN peers THEN same @@ [result |-> "NotFound"]
        ELSE IF busy THEN same @@ [result |-> "WouldBlock"]
        ELSE LET purged == MonitoredPeer_purge_stale(peers[id], now, PingTimeout)
                 added == MonitoredPeer_add(purged, next.seq.val, now)
                 message == Message(Local, id, next.seq.val, Request(now, added.peer.seen))
             IN  IF added.err
                 THEN [peers |-> [peers EXCEPT ![id] = added.peer], seq |-> next.counter,
                       out |-> <<>>, result |-> "OutOfMemory"]
                 ELSE [peers |-> [peers EXCEPT ![id] = added.peer], seq |-> next.counter,
                       out |-> IF io THEN <<[dest |-> id, bytes |-> Message_write(message)]>>
                               ELSE <<>>,
                       result |-> IF io THEN "Ok" ELSE "IoError"]

\* A refill that takes every peer of the table.
Eligible_All(now) == DOMAIN peers

\* The peers Worker::queue refills an empty queue with.
Eligible(now) ==
    LET cutoff == Timestamp_sub_Duration(now, IdleTimeout).val
    IN  {id \in DOMAIN peers :
            \/ peers[id].seen.some /\ ~U64_lt(peers[id].seen.val, cutoff)
            \/ Observations_reachable(peers[id].observations).some
            \/ ~Observations_is_full(peers[id].observations)}

Orders(ids) == {q \in [1..Cardinality(ids) -> ids] : \A i, j \in DOMAIN q : i # j => q[i] # q[j]}

\* Worker::queue that shuffles the eligible peers anew at every tick.
Worker_queue_Reshuffle(now) ==
    IF Eligible(now) = {} THEN {[id |-> None, waiting |-> <<>>]}
    ELSE {[id |-> Some(Head(q)), waiting |-> Tail(q)] : q \in Orders(Eligible(now))}

\* Worker::queue: the next id and the queue left, for each outcome of the shuffle
Worker_queue(now) ==
    IF waiting # <<>> THEN {[id |-> Some(Head(waiting)), waiting |-> Tail(waiting)]}
    ELSE IF Eligible(now) = {} THEN {[id |-> None, waiting |-> <<>>]}
    ELSE {[id |-> Some(Head(q)), waiting |-> Tail(q)] : q \in Orders(Eligible(now))}

\* select!: the ping interval ticked, the worker's counter being followed
\* for `most` calls of Counter::next
Worker_run_ping(most) ==
    /\ Running
    /\ \E q \in Worker_queue(Now) :
        /\ waiting' = q.waiting
        /\ IF q.id.some
           THEN \E busy \in IF q.id.val \in DOMAIN peers THEN BOOLEAN ELSE {FALSE} :
                \E io \in IF q.id.val \in DOMAIN peers /\ ~busy THEN BOOLEAN ELSE {TRUE} :
                \E r \in {Worker_ping(q.id.val, busy, io)} :
                    /\ r.seq[1] <= most + 1
                    /\ peers' = r.peers
                    /\ worker_seq' = r.seq
                    /\ outbox' = r.out
                    /\ worker' = IF r.result = "Panic" THEN "panicked" ELSE worker
                    /\ event' = [kind |-> "ping", id |-> q.id, result |-> r.result]
           ELSE /\ outbox' = <<>>
                /\ event' = [kind |-> "ping", id |-> None, result |-> "Ok"]
                /\ UNCHANGED <<peers, worker_seq, worker>>
    /\ UNCHANGED <<resolving, tasks, close, elapsed>>
    /\ UNCHANGED <<codecVars, seqVars, obsVars, guard, tm, sel, lock, poll>>

PingTick == Worker_run_ping(MaxSeq) /\ UNCHANGED lost

\* MonitoredPeer::status
MonitoredPeer_status(id, peer, cutoff) ==
    LET latency == Observations_latency(peer.observations)
    IN  IF latency.kind = "Panic" THEN latency
        ELSE Ok([peer |-> id,
                 available |-> peer.seen.some /\ ~U64_lt(peer.seen.val, cutoff),
                 last_seen |-> peer.seen,
                 last_replied |-> Observations_reachable(peer.observations),
                 latency |-> latency.val])

\* Monitor::status over the table `table` at time `now`: one PeerStatus per
\* entry, or the panic of an entry's status.
Monitor_status(table, now) ==
    LET cutoff == Timestamp_sub_Duration(now, IdleTimeout).val
        each == [id \in DOMAIN table |-> MonitoredPeer_status(id, table[id], cutoff)]
    IN  IF \E id \in DOMAIN table : each[id].kind = "Panic"
        THEN Panic("Duration::from_secs_f64: NaN")
        ELSE Ok([id \in DOMAIN table |-> each[id].val])

\* DashMap::iter takes the shard's lock for reading whoever holds it.
try_read_Unlocked(held) == TRUE

\* DashMap::iter reads an entry under the shared lock of its shard, which it
\* gets when no write guard is held.
try_read(held) == ~held.some

\* A caller of Monitor::status, at any time while the Monitor exists.
Status ==
    /\ try_read(guard)
    /\ event' = [kind |-> "status", view |-> peers, result |-> Monitor_status(peers, Now)]
    /\ UNCHANGED <<peers, worker_seq, waiting, resolving, tasks, close, elapsed, worker, outbox>>
    /\ UNCHANGED <<codecVars, seqVars, obsVars, guard, tm, sel, lost, lock, poll>>

\* The resolve arm spawns whatever the handle says.
Worker_resolve_tick_Always(handle) == TRUE

\* The resolve arm spawns only while it holds no handle at all.
Worker_resolve_tick_Once(handle) == handle = "none"

\* The resolve arm of select!: `continue` when the task of the handle it
\* holds has not finished, spawn otherwise.
Worker_resolve_tick(handle) == handle # "running"

\* select!: the resolve interval ticked
ResolveTick ==
    /\ Running
    /\ IF Worker_resolve_tick(resolving)
       THEN /\ resolving' = "running"
            /\ tasks' = tasks + 1
            /\ event' = [kind |-> "resolve_tick", spawned |-> TRUE]
       ELSE /\ event' = [kind |-> "resolve_tick", spawned |-> FALSE]
            /\ UNCHANGED <<resolving, tasks>>
    /\ outbox' = <<>>
    /\ UNCHANGED <<peers, worker_seq, waiting, close, elapsed, worker>>
    /\ UNCHANGED <<codecVars, seqVars, obsVars, guard, tm, sel, lost, lock, poll>>

\* Worker::resolve that inserts the local id like any other.
Worker_resolve_WithLocal(current, unparsed) ==
    LET new == {id \in current : id \notin DOMAIN peers}
        inserted == [id \in DOMAIN peers \cup new |->
                        IF id \in new THEN MonitoredPeer_new ELSE peers[id]]
        len == Cardinality(current) + unparsed
    IN  IF new # {} \/ (len >= 1 /\ len - 1 < Cardinality(DOMAIN inserted))
        THEN [id \in DOMAIN inserted \cap current |-> inserted[id]]
        ELSE inserted

\* Worker::resolve once the resolver answered with `current`: the ids that
\* parse (the local one may be among them) and `unparsed` entries whose id
\* does not parse.  For an empty answer `current.len() - 1` underflows: a
\* debug build panics there and a release build wraps to usize::MAX; in
\* both the retain is not reached.
Worker_resolve(current, unparsed) ==
    LET new == {id \in current \ {Local} : id \notin DOMAIN peers}
        inserted == [id \in DOMAIN peers \cup new |->
                        IF id \in new THEN MonitoredPeer_new ELSE peers[id]]
        len == Cardinality(current) + unparsed
    IN  IF new # {} \/ (len >= 1 /\ len - 1 < Cardinality(DOMAIN inserted))
        THEN [id \in DOMAIN inserted \cap current |-> inserted[id]]
        ELSE inserted

\* The spawned resolve task ends: the query failed, or its answer, some of
\* the machines `known` to the resolver, was applied.
Worker_run_resolved(known) ==
    /\ tasks > 0
    /\ \/ /\ event' = [kind |-> "resolved", ok |-> FALSE]
          /\ UNCHANGED peers
       \/ \E current \in SUBSET (known \cup {Local}), unparsed \in {0, 1} :
            /\ peers' = Worker_resolve(current, unparsed)
            /\ event' = [kind |-> "resolved", ok |-> TRUE, current |-> current,
                         unparsed |-> unparsed]
    /\ tasks' = tasks - 1
    /\ resolving' = IF tasks = 1 THEN "finished" ELSE resolving
    /\ outbox' = <<>>
    /\ UNCHANGED <<worker_seq, waiting, close, elapsed, worker>>
    /\ UNCHANGED <<codecVars, seqVars, obsVars, guard, tm, sel, lost, lock, poll>>

ResolveDone == Worker_run_resolved(Remote)

\* Monitor::shutdown (and the first step of Monitor::stop): the sender is
\* taken and the signal sent; a second call finds no sender.
Shutdown ==
    /\ close = "open"
    /\ close' = "sent"
    /\ UNCHANGED <<peers, worker_seq, waiting, resolving, tasks, elapsed, worker, outbox, event>>
    /\ UNCHANGED <<codecVars, seqVars, obsVars, guard, tm, sel, lost, lock, poll>>

\* select!: the close channel is ready; the loop breaks and run returns
\* Ok(elapsed).  The other arms that are ready stay enabled: select! is not
\* biased and polls its arms from a random one.
Worker_run_close(resolved) ==
    /\ Running
    /\ close \in resolved
    /\ worker' = "stopped"
    /\ outbox' = <<>>
    /\ event' = [kind |-> "closed", result |-> Ok(elapsed)]
    /\ UNCHANGED <<peers, worker_seq, waiting, resolving, tasks, close, elapsed>>
    /\ UNCHANGED <<codecVars, seqVars, obsVars, guard, tm, sel, lost, lock, poll>>

Close == Worker_run_close({"sent"})

\* Time passes, up to `horizon` seconds: the clock is read at multiples of
\* the ping timeout.
Clock_advance(horizon) ==
    /\ elapsed < horizon
    /\ elapsed' = elapsed + PingTimeoutSecs
    /\ UNCHANGED <<peers, worker_seq, waiting, resolving, tasks, close, worker, outbox, event>>
    /\ UNCHANGED <<codecVars, seqVars, obsVars, guard, tm, sel, lost, lock, poll>>

Tick == Clock_advance(Horizon)

Next ==
    \/ Receive
    \/ ReceiveError
    \/ PingTick
    \/ ResolveTick
    \/ ResolveDone
    \/ Shutdown
    \/ Close
    \/ Status
    \/ Tick

----
\* The buffer harness: observations added to one Observations<L>.

SampleObservations ==
    {Observation(Clock_now(t), status) :
        t \in 0..2,
        status \in {Available(Seconds(d)) : d \in 3..4} \cup {Unavailable(Seconds(d)) : d \in 2..3}}

ObsIdle == obs = <<>> /\ obs_before = <<>> /\ obs_added = None

InitObs == obs = <<>> /\ obs_before = <<>> /\ obs_added = None

ObsAdd ==
    /\ \E latest \in SampleObservations :
        /\ obs' = Observations_add(obs, latest)
        /\ obs_added' = Some(latest)
    /\ obs_before' = obs
    /\ UNCHANGED <<codecVars, seqVars, workerVars, tm, sel, lost, lock, poll>>

NextObs == ObsAdd

----
\* Probing one discovered peer for longer: the worker after discovery
\* reported peer IdA, with ping ticks, the peer's Replies to probes that are
\* outstanding, and time passing.  No other datagram arrives and discovery
\* does not run again.

MaxProbes == 4       \* the worker calls Counter::next at most this often here
ProbeHorizon == 7    \* no clock tick once this many seconds have elapsed here

\* Worker::run after the first resolve task inserted IdA
InitProbe ==
    /\ peers = [id \in {IdA} |-> MonitoredPeer_new]
    /\ \E b \in WorkerSeedBytes : worker_seq = Counter_new(b)
    /\ waiting = <<>>
    /\ resolving = "finished"
    /\ tasks = 0
    /\ close = "open"
    /\ elapsed = 0
    /\ worker = "running"
    /\ outbox = <<>>
    /\ guard = None
    /\ event = [kind |-> "resolved", ok |-> TRUE, current |-> {IdA}, unparsed |-> 0]

InitSpecProbe == CodecIdle /\ SeqIdle /\ ObsIdle /\ InitProbe /\ TimeIdle /\ SelectIdle /\ NoneLost /\ LockIdle /\ PollIdle

\* The sequence numbers of the probes outstanding in a table
Outstanding(table) ==
    UNION {{table[id].sent[i].seq : i \in 1..Len(table[id].sent)} : id \in DOMAIN table}

ProbeTick == Worker_run_ping(MaxProbes) /\ lost' = lost \cap Outstanding(peers')

\* Worker::receive, Reply: the peer's answer to a probe that is outstanding
\* arrives (the Reply's own timestamps play no part)
Answer ==
    /\ Running
    /\ \E id \in DOMAIN peers : \E i \in 1..Len(peers[id].sent) :
        LET reply == Reply(peers[id].sent[i].seq, peers[id].sent[i].time, Now, None)
        IN  /\ reply.to \notin lost
            /\ peers' = [peers EXCEPT ![id] = MonitoredPeer_receive(@, reply, Now)]
            /\ event' = [kind |-> "reply", id |-> id, to |-> reply.to]
    /\ outbox' = <<>>
    /\ UNCHANGED <<worker_seq, waiting, resolving, tasks, close, elapsed, worker>>
    /\ UNCHANGED <<codecVars, seqVars, obsVars, guard, tm, sel, lost, lock, poll>>

\* The Request of the last ping tick does not reach its peer, because the
\* socket refused it or the network dropped it: the peer never answers it
Lose ==
    /\ Running
    /\ event.kind = "ping" /\ event.result \in {"Ok", "IoError"}
    /\ \E id \in DOMAIN peers : \E i \in 1..Len(peers[id].sent) :
         /\ event.id = Some(id) /\ i = Len(peers[id].sent)
         /\ peers[id].sent[i].seq \notin lost
         /\ lost' = lost \cup {peers[id].sent[i].seq}
         /\ event' = [kind |-> "lost", id |-> id, seq |-> peers[id].sent[i].seq]
    /\ UNCHANGED <<peers, worker_seq, waiting, resolving, tasks, close, elapsed, worker, outbox>>
    /\ UNCHANGED <<codecVars, seqVars, obsVars, guard, tm, sel, lock, poll>>

Wait == Clock_advance(ProbeHorizon)

NextProbe == ProbeTick \/ Answer \/ Lose \/ Wait

SpecProbe == InitSpecProbe /\ [][NextProbe]_vars

----
\* The time harness: Timestamps and Durations subtracted, over values at
\* the limb borders, the ends of the 64-bit range and the clock's own.

SampleTimestamps ==
    {U64_ZERO, U64(1, 0, 0, 0), U64(65535, 0, 0, 0), U64(0, 1, 0, 0), Second,
     U64(65535, 65535, 0, 0), T, Clock_now(2), U64(0, 0, 0, 32768), U64_MAX}

\* Durations, as ns(duration): the configured timeouts among them
SampleDurations ==
    {U64_ZERO, U64(1, 0, 0, 0), U64(0, 1, 0, 0), Second, PingTimeout, IdleTimeout,
     U64(65535, 65535, 0, 0), T, U64(0, 0, 0, 32768), U64_MAX}

InitTime == tm = [op |-> "none"]

\* a - b for two Timestamps; Duration::from_nanos takes every u64
TimeSub ==
    /\ \E a \in SampleTimestamps, b \in SampleTimestamps :
        tm' = [op |-> "sub", a |-> a, b |-> b, out |-> Ok(Timestamp_sub(a, b))]
    /\ UNCHANGED <<codecVars, seqVars, obsVars, workerVars, sel, lost, lock, poll>>

\* t - d for a Timestamp and a Duration
TimeSubDuration ==
    /\ \E t \in SampleTimestamps, d \in SampleDurations, overflow_checks \in BOOLEAN :
        tm' = [op |-> "sub_duration", a |-> t, b |-> d,
               out |-> Timestamp_sub_Duration_built(t, d, overflow_checks)]
    /\ UNCHANGED <<codecVars, seqVars, obsVars, workerVars, sel, lost, lock, poll>>

NextTime == TimeSub \/ TimeSubDuration

----
\* The worker against a concurrent holder of the peer's shard: status()
\* iterating the table holds the shard's lock for reading, the resolve task
\* holds it for writing while it inserts or retains.  Worker::ping and the
\* Request branch of Worker::receive use try_get_mut, the Reply branch uses
\* get_mut, which waits for the lock.

InitSpecLock == CodecIdle /\ SeqIdle /\ ObsIdle /\ InitProbe /\ TimeIdle /\ SelectIdle /\ NoneLost /\ LockIdle /\ PollIdle

\* The worker is at its select!, not inside get_mut
AtSelect == Running /\ ~lock.blocked.some

\* The peer's shard is locked by a concurrent operation
Locked == lock.holder # "none"

\* A concurrent status() or resolve task takes the lock of the shard
LockTake ==
    /\ ~Locked
    /\ \E h \in {"status", "resolve"} : lock' = [lock EXCEPT !.holder = h]
    /\ event' = [kind |-> "locked"]
    /\ UNCHANGED <<peers, worker_seq, waiting, resolving, tasks, close, elapsed, worker, outbox>>
    /\ UNCHANGED <<codecVars, seqVars, obsVars, guard, tm, sel, lost, poll>>

\* The concurrent operation lets the lock go
LockRelease ==
    /\ Locked
    /\ lock' = [lock EXCEPT !.holder = "none"]
    /\ event' = [kind |-> "unlocked"]
    /\ UNCHANGED <<peers, worker_seq, waiting, resolving, tasks, close, elapsed, worker, outbox>>
    /\ UNCHANGED <<codecVars, seqVars, obsVars, guard, tm, sel, lost, poll>>

\* select!: the ping interval ticked; try_get_mut answers Locked exactly
\* when the shard is held
LockedPing ==
    /\ AtSelect
    /\ \E q \in Worker_queue(Now) :
        /\ q.id.some
        /\ waiting' = q.waiting
        /\ \E io \in BOOLEAN : \E r \in {Worker_ping(q.id.val, Locked, io)} :
            /\ r.seq[1] <= MaxProbes + 1
            /\ peers' = r.peers
            /\ worker_seq' = r.seq
            /\ outbox' = r.out
            /\ worker' = IF r.result = "Panic" THEN "panicked" ELSE worker
            /\ event' = [kind |-> "ping", id |-> q.id, result |-> r.result]
    /\ UNCHANGED <<resolving, tasks, close, elapsed>>
    /\ UNCHANGED <<codecVars, seqVars, obsVars, guard, tm, sel, lost, lock, poll>>

\* select!: recv_from returned a Request for this machine; try_get_mut
\* answers Locked exactly when the shard is held
LockedRequest ==
    /\ AtSelect
    /\ \E data \in Datagrams : \E io \in BOOLEAN :
        \E r \in {Worker_receive(data, Locked, io)} :
            /\ IsRequestToLocal(data)
            /\ r.seq[1] <= MaxProbes + 1
            /\ peers' = r.peers
            /\ worker_seq' = r.seq
            /\ outbox' = r.out
            /\ worker' = IF r.result = "Panic" THEN "panicked" ELSE worker
            /\ event' = [kind |-> "recv", data |-> data, busy |-> Locked, result |-> r.result]
    /\ UNCHANGED <<waiting, resolving, tasks, close, elapsed>>
    /\ UNCHANGED <<codecVars, seqVars, obsVars, guard, tm, sel, lost, lock, poll>>

\* The datagrams that hold a Reply for this machine from a peer of the table
IsReplyFromPeer(data) ==
    /\ Decoded[data].kind = "Ok" /\ Decoded[data].val.some
    /\ Decoded[data].val.val.to = Local
    /\ Decoded[data].val.val.contents.type = "Reply"
    /\ Decoded[data].val.val.from \in DOMAIN peers

\* select!: recv_from returned a Reply of a peer of the table.  get_mut
\* returns at once when the shard is free; when it is held the worker's
\* thread waits inside get_mut with the Reply in hand.
LockedReply ==
    /\ AtSelect
    /\ \E data \in Datagrams :
        /\ IsReplyFromPeer(data)
        /\ IF Locked
           THEN /\ lock' = [lock EXCEPT !.blocked = Some(data)]
                /\ event' = [kind |-> "get_mut", data |-> data]
                /\ UNCHANGED <<peers, outbox>>
           ELSE /\ peers' = Worker_receive(data, FALSE, TRUE).peers
                /\ outbox' = <<>>
                /\ event' = [kind |-> "recv", data |-> data, busy |-> FALSE, result |-> "Ok"]
                /\ UNCHANGED lock
    /\ UNCHANGED <<worker_seq, waiting, resolving, tasks, close, elapsed, worker>>
    /\ UNCHANGED <<codecVars, seqVars, obsVars, guard, tm, sel, lost, poll>>

\* The lock is free again: get_mut returns and the Reply is handled
ReplyResume ==
    /\ Running /\ lock.blocked.some /\ ~Locked
    /\ peers' = Worker_receive(lock.blocked.val, FALSE, TRUE).peers
    /\ lock' = [lock EXCEPT !.blocked = None]
    /\ outbox' = <<>>
    /\ event' = [kind |-> "recv", data |-> lock.blocked.val, busy |-> TRUE, result |-> "Ok"]
    /\ UNCHANGED <<worker_seq, waiting, resolving, tasks, close, elapsed, worker>>
    /\ UNCHANGED <<codecVars, seqVars, obsVars, guard, tm, sel, lost, poll>>

NextLock == LockTake \/ LockRelease \/ LockedPing \/ LockedRequest \/ LockedReply \/ ReplyResume

SpecLock == InitSpecLock /\ [][NextLock]_vars

----
\* demo/src/backend.rs: the status-polling task and the slot it publishes
\* into, an Arc<RwLock<Vec<PeerStatus>>> that the HTTP handlers read.

MaxPolls == 3       \* status() is called at most this often here
MaxReaders == 2     \* HTTP handlers holding the slot's read lock at most

\* The keys PeerStatus values are ordered by (derived Ord: the peer first)
PollIds == {1, 2}

\* Monitor::status called for the n-th time: one PeerStatus for each entry
\* of the table at that time, in the order DashMap::iter meets them
StatusResults(n) ==
    UNION {{q \in [1..Cardinality(ids) -> {[id |-> i, n |-> n] : i \in ids}] :
                \A i, j \in DOMAIN q : i # j => q[i] # q[j]} : ids \in SUBSET PollIds}

\* Vec::sort, by selection of the least element
RECURSIVE Vec_sort(_)
Vec_sort(v) ==
    IF v = <<>> THEN <<>>
    ELSE LET m == CHOOSE i \in 1..Len(v) : \A j \in 1..Len(v) : v[i].id <= v[j].id
         IN  <<v[m]>> \o Vec_sort([k \in 1..(Len(v) - 1) |-> IF k < m THEN v[k] ELSE v[k + 1]])

\* The slot's memory while `*status = updated` is under way
Vec_assigning(new, old) ==
    SubSeq(new, 1, Len(new) \div 2) \o SubSeq(old, (Len(old) \div 2) + 1, Len(old))

\* RwLock::read that does not wait for the writer.
RwLock_read_Unlocked(writing) == TRUE

\* RwLock::read: granted while no write guard is held
RwLock_read(writing) == ~writing

\* Backend::new and app::start: the slot holds vec![], the task is spawned
InitPoll ==
    poll = [pc |-> "select", due |-> FALSE, stop |-> "open", n |-> 0,
            updated |-> <<>>, slot |-> <<>>, made |-> {}, readers |-> 0,
            view |-> <<>>, after |-> 0]

InitSpecPoll == CodecIdle /\ SeqIdle /\ ObsIdle /\ WorkerIdle /\ TimeIdle /\ SelectIdle /\ NoneLost /\ LockIdle /\ InitPoll

\* The polling task has not returned
Polling == poll.pc \notin {"off", "done"}

\* The interval's deadline passes (MissedTickBehavior::Delay: one period
\* after the last tick was taken, however long its handling takes)
TimerDue ==
    /\ Polling /\ ~poll.due
    /\ poll' = [poll EXCEPT !.due = TRUE]
    /\ UNCHANGED <<codecVars, seqVars, obsVars, workerVars, tm, sel, lost, lock>>

\* app::start: axum::serve returned, stop_tx.send(())
StopSent ==
    /\ Polling /\ poll.stop = "open"
    /\ poll' = [poll EXCEPT !.stop = "sent"]
    /\ UNCHANGED <<codecVars, seqVars, obsVars, workerVars, tm, sel, lost, lock>>

\* poll_status, tick arm (polled first: the select! is biased):
\* monitor.status() and updated.sort()
PollTick ==
    /\ poll.pc = "select" /\ poll.due /\ poll.n < MaxPolls
    /\ \E result \in StatusResults(poll.n + 1) :
        poll' = [poll EXCEPT !.pc = "computed", !.due = FALSE, !.n = @ + 1,
                             !.updated = Vec_sort(result),
                             !.made = @ \cup {Vec_sort(result)}]
    /\ UNCHANGED <<codecVars, seqVars, obsVars, workerVars, tm, sel, lost, lock>>

\* status.write().await returns the write guard: no read guard is held
PollWrite ==
    /\ poll.pc = "computed" /\ poll.readers = 0
    /\ poll' = [poll EXCEPT !.pc = "writing", !.slot = Vec_assigning(poll.updated, @)]
    /\ UNCHANGED <<codecVars, seqVars, obsVars, workerVars, tm, sel, lost, lock>>

\* `*status = updated` is complete and the write guard dropped
PollStore ==
    /\ poll.pc = "writing"
    /\ poll' = [poll EXCEPT !.pc = "select", !.slot = poll.updated,
                             !.after = IF poll.stop = "sent" THEN @ + 1 ELSE @]
    /\ UNCHANGED <<codecVars, seqVars, obsVars, workerVars, tm, sel, lost, lock>>

\* poll_status, stop arm: polled when the tick is not ready
PollStop ==
    /\ poll.pc = "select" /\ ~poll.due /\ poll.stop = "sent"
    /\ poll' = [poll EXCEPT !.pc = "done"]
    /\ UNCHANGED <<codecVars, seqVars, obsVars, workerVars, tm, sel, lost, lock>>

\* An HTTP handler: backend.status.read().await
SlotRead ==
    /\ poll.pc # "off" /\ poll.readers < MaxReaders
    /\ RwLock_read(poll.pc = "writing")
    /\ poll' = [poll EXCEPT !.readers = @ + 1]
    /\ UNCHANGED <<codecVars, seqVars, obsVars, workerVars, tm, sel, lost, lock>>

\* The handler clones the vector and drops its read guard
SlotClone ==
    /\ poll.pc # "off" /\ poll.readers > 0
    /\ poll' = [poll EXCEPT !.readers = @ - 1, !.view = poll.slot]
    /\ UNCHANGED <<codecVars, seqVars, obsVars, workerVars, tm, sel, lost, lock>>

NextPoll ==
    TimerDue \/ StopSent \/ PollTick \/ PollWrite \/ PollStore \/ PollStop \/ SlotRead \/ SlotClone

SpecPoll == InitSpecPoll /\ [][NextPoll]_vars

----
\* The key set of the table, with two peers known to the resolver: a refill
\* leaves the second of them waiting in the queue while the resolve task
\* may drop it from the table.

InitKeys ==
    /\ peers = [id \in {IdA, IdB} |-> MonitoredPeer_new]
    /\ \E b \in WorkerSeedBytes : worker_seq = Counter_new(b)
    /\ waiting = <<>>
    /\ resolving = "finished"
    /\ tasks = 0
    /\ close = "open"
    /\ elapsed = 0
    /\ worker = "running"
    /\ outbox = <<>>
    /\ guard = None
    /\ event = [kind |-> "resolved", ok |-> TRUE, current |-> {IdA, IdB}, unparsed |-> 0]

InitSpecKeys == CodecIdle /\ SeqIdle /\ ObsIdle /\ InitKeys /\ TimeIdle /\ SelectIdle /\ NoneLost /\ LockIdle /\ PollIdle

KeysResolved == Worker_run_resolved({IdA, IdB})

NextKeys == Receive \/ ProbeTick \/ ResolveTick \/ KeysResolved

SpecKeys == InitSpecKeys /\ [][NextKeys]_vars

----
\* Probing with replies that come twice or late: besides the reply to an
\* outstanding probe, the socket delivers Replies that acknowledge a Seq the
\* worker issued earlier and holds no Sent record for any more.

InitSpecOnce == CodecIdle /\ SeqIdle /\ ObsIdle /\ InitProbe /\ TimeIdle /\ SelectIdle /\ NoneLost /\ LockIdle /\ PollIdle

\* The Seq values the worker's counter has given out
Issued == {U32(k, worker_seq[2]) : k \in 1..(worker_seq[1] - 1)}

\* Worker::receive, Contents::Reply from a peer of the table, acknowledging
\* a probe that was answered or purged before
Replay ==
    /\ Running
    /\ \E id \in DOMAIN peers : \E to \in Issued \ Outstanding(peers) :
        LET reply == Reply(to, Now, Now, None)
        IN  /\ peers' = [peers EXCEPT ![id] = MonitoredPeer_receive(@, reply, Now)]
            /\ event' = [kind |-> "reply", id |-> id, to |-> to]
    /\ outbox' = <<>>
    /\ UNCHANGED <<worker_seq, waiting, resolving, tasks, close, elapsed, worker>>
    /\ UNCHANGED <<codecVars, seqVars, obsVars, guard, tm, sel, lost, lock, poll>>

OnceHorizon == 5    \* no clock tick once this many seconds have elapsed here

OnceWait == Clock_advance(OnceHorizon)

NextOnce == ProbeTick \/ Answer \/ Replay \/ OnceWait

SpecOnce == InitSpecOnce /\ [][NextOnce]_vars

----
\* The handle and the close channel.  Here `close` follows the handle as
\* well: "open" (the handle holds the sender), "sent" (shutdown() took the
\* sender and sent), "awaited" (stop() consumed the handle and awaits the
\* task), "dropped" (the handle was dropped with the sender in it).

InitSpecStop == CodecIdle /\ SeqIdle /\ ObsIdle /\ InitProbe /\ TimeIdle /\ SelectIdle /\ NoneLost /\ LockIdle /\ PollIdle

\* oneshot::Sender::send: Err(value) when the receiver is gone
oneshot_send(receiver) == IF receiver THEN "Ok" ELSE "Err"

\* Monitor::shutdown that sends at every call.
Monitor_shutdown_Resend(sender, receiver) ==
    [close |-> "sent", signals |-> 1, sent |-> oneshot_send(receiver), result |-> "Ok"]

\* Monitor::shutdown: close.take(), and `let _ = sender.send(())`
Monitor_shutdown(sender, receiver) ==
    IF sender = "open"
    THEN [close |-> "sent", signals |-> 1, sent |-> oneshot_send(receiver), result |-> "Ok"]
    ELSE [close |-> sender, signals |-> 0, sent |-> "none", result |-> "Ok"]

\* A call of Monitor::shutdown on the handle
ShutdownCall ==
    /\ close \in {"open", "sent"}
    /\ \E r \in {Monitor_shutdown(close, Running)} :
        /\ close' = r.close
        /\ event' = [kind |-> "shutdown", signals |-> r.signals, sent |-> r.sent,
                     result |-> r.result]
    /\ UNCHANGED <<peers, worker_seq, waiting, resolving, tasks, elapsed, worker, outbox>>
    /\ UNCHANGED <<codecVars, seqVars, obsVars, guard, tm, sel, lost, lock, poll>>

\* A call of Monitor::stop: shutdown(), then the handle is taken apart and
\* the task awaited
StopCall ==
    /\ close \in {"open", "sent"}
    /\ \E r \in {Monitor_shutdown(close, Running)} :
        /\ close' = "awaited"
        /\ event' = [kind |-> "stop", signals |-> r.signals, sent |-> r.sent,
                     result |-> r.result]
    /\ UNCHANGED <<peers, worker_seq, waiting, resolving, tasks, elapsed, worker, outbox>>
    /\ UNCHANGED <<codecVars, seqVars, obsVars, guard, tm, sel, lost, lock, poll>>

\* The Monitor is dropped before shutdown() was called: its Sender is
\* dropped with it, its JoinHandle detaches the task
DropHandle ==
    /\ close = "open"
    /\ close' = "dropped"
    /\ event' = [kind |-> "drop"]
    /\ UNCHANGED <<peers, worker_seq, waiting, resolving, tasks, elapsed, worker, outbox>>
    /\ UNCHANGED <<codecVars, seqVars, obsVars, guard, tm, sel, lost, lock, poll>>

\* select!: `_ = &mut self.close`.  The receiver is ready with Ok(()) after
\* a send and with Err(RecvError) after the sender was dropped; the pattern
\* takes both.
CloseArm == Worker_run_close({"sent", "awaited", "dropped"})

NextStop == ProbeTick \/ ReceiveError \/ ShutdownCall \/ StopCall \/ DropHandle \/ CloseArm

SpecStop == InitSpecStop /\ [][NextStop]_vars

\* select! polls its arms from a random one on: an arm that stays ready is
\* taken after finitely many iterations
SpecStopFair == SpecStop /\ WF_vars(CloseArm)

----
\* The select harness: the four event sources of Worker::run's select! as
\* they become ready, and the arm each iteration of the loop takes.  An arm
\* that is ready and not taken stays ready for the next iteration: the
\* datagram stays in the socket, the interval stays due, the signal stays
\* sent.

MaxPending == 2     \* datagrams waiting in the socket at most

\* The arms in the order select! lists them
Arms == <<"recv", "resolve", "ping", "close">>

\* The arms whose future is ready
Ready(s) ==
    {a \in {Arms[i] : i \in 1..4} :
        \/ a = "recv" /\ s.datagrams > 0
        \/ a = "resolve" /\ s.resolve
        \/ a = "ping" /\ s.ping
        \/ a = "close" /\ s.shutdown}

\* select! without `biased;`: the arms are polled in their order from a
\* random one on, round the list, and the first ready one is taken.
select_poll(ready, start) ==
    LET order == [k \in 1..4 |-> Arms[((start + k - 2) % 4) + 1]]
        first == CHOOSE k \in 1..4 :
                    order[k] \in ready /\ \A j \in 1..(k - 1) : order[j] \notin ready
    IN  order[first]

InitSelect ==
    sel = [datagrams |-> 0, resolve |-> FALSE, ping |-> FALSE, shutdown |-> FALSE,
           taken |-> "none", raced |-> {}]

InitSpecSelect == CodecIdle /\ SeqIdle /\ ObsIdle /\ WorkerIdle /\ TimeIdle /\ InitSelect /\ NoneLost /\ LockIdle /\ PollIdle

\* The loop has not left through the close arm
Looping == sel.taken \notin {"off", "close"}

\* A datagram reaches the socket
DatagramArrives ==
    /\ Looping /\ sel.datagrams < MaxPending
    /\ sel' = [sel EXCEPT !.datagrams = @ + 1]
    /\ UNCHANGED <<codecVars, seqVars, obsVars, workerVars, tm, lost, lock, poll>>

\* The resolve interval comes due
ResolveDue ==
    /\ Looping /\ ~sel.resolve
    /\ sel' = [sel EXCEPT !.resolve = TRUE]
    /\ UNCHANGED <<codecVars, seqVars, obsVars, workerVars, tm, lost, lock, poll>>

\* The ping interval comes due
PingDue ==
    /\ Looping /\ ~sel.ping
    /\ sel' = [sel EXCEPT !.ping = TRUE]
    /\ UNCHANGED <<codecVars, seqVars, obsVars, workerVars, tm, lost, lock, poll>>

\* Monitor::shutdown sends the signal
CloseSent ==
    /\ Looping /\ ~sel.shutdown
    /\ sel' = [sel EXCEPT !.shutdown = TRUE]
    /\ UNCHANGED <<codecVars, seqVars, obsVars, workerVars, tm, lost, lock, poll>>

\* One iteration of the loop: select! returns with one ready arm
Select ==
    /\ Looping /\ Ready(sel) # {}
    /\ \E start \in 1..4 :
        LET arm == select_poll(Ready(sel), start)
        IN  sel' = [datagrams |-> IF arm = "recv" THEN sel.datagrams - 1 ELSE sel.datagrams,
                    resolve |-> sel.resolve /\ arm # "resolve",
                    ping |-> sel.ping /\ arm # "ping",
                    shutdown |-> sel.shutdown,
                    taken |-> arm,
                    raced |-> Ready(sel)]
    /\ UNCHANGED <<codecVars, seqVars, obsVars, workerVars, tm, lost, lock, poll>>

\* The step in which select! returns: an arm's readiness is used up or the
\* loop is left, and nothing becomes ready.
SelectReturns ==
    /\ sel' # sel
    /\ sel'.datagrams <= sel.datagrams
    /\ sel'.resolve => sel.resolve
    /\ sel'.ping => sel.ping
    /\ sel'.shutdown = sel.shutdown

NextSelect == DatagramArrives \/ ResolveDue \/ PingDue \/ CloseSent \/ Select

SpecSelect == InitSpecSelect /\ [][NextSelect]_vars

----
\* Each specification starts its own component and leaves the others idle.
InitSpecCodec == InitCodec /\ SeqIdle /\ ObsIdle /\ WorkerIdle /\ TimeIdle /\ SelectIdle /\ NoneLost /\ LockIdle /\ PollIdle
InitSpecSeq == CodecIdle /\ InitSeq /\ ObsIdle /\ WorkerIdle /\ TimeIdle /\ SelectIdle /\ NoneLost /\ LockIdle /\ PollIdle
InitSpecObs == CodecIdle /\ SeqIdle /\ InitObs /\ WorkerIdle /\ TimeIdle /\ SelectIdle /\ NoneLost /\ LockIdle /\ PollIdle
InitSpecTime == CodecIdle /\ SeqIdle /\ ObsIdle /\ WorkerIdle /\ InitTime /\ SelectIdle /\ NoneLost /\ LockIdle /\ PollIdle
Init == CodecIdle /\ SeqIdle /\ ObsIdle /\ InitWorker /\ TimeIdle /\ SelectIdle /\ NoneLost /\ LockIdle /\ PollIdle

SpecCodec == InitSpecCodec /\ [][NextCodec]_vars
SpecSeq == InitSpecSeq /\ [][NextSeq]_vars
SpecObs == InitSpecObs /\ [][NextObs]_vars
SpecTime == InitSpecTime /\ [][NextTime]_vars
Spec == Init /\ [][Next]_vars

----
\* The peer table at the grain of its locks.  In Spec a handler of the
\* worker is one step and a busy entry is an input; here the worker's
\* updates of an entry are the single field writes it makes while it holds
\* the entry's write guard, and the resolve task and status() take the lock
\* of the shard for each access.

\* MonitoredPeer::receive as the states the entry goes through: seen is
\* replaced, the matching Sent is removed, the observation is added.
MonitoredPeer_receive_writes(peer, reply, now) ==
    LET new == MonitoredPeer_receive(peer, reply, now)
        seen == [peer EXCEPT !.seen = new.seen]
    IN  IF new.sent = peer.sent THEN <<seen>>
        ELSE <<seen, [seen EXCEPT !.sent = new.sent], new>>

\* Worker::ping as the states the entry goes through: purge_stale, then add.
Worker_ping_writes(peer, seq, now) ==
    LET purged == MonitoredPeer_purge_stale(peer, now, PingTimeout)
        added == MonitoredPeer_add(purged, seq, now)
    IN  IF added.err THEN <<purged>> ELSE <<purged, added.peer>>

\* Worker::receive, Reply: get_mut waits for the entry's write guard
ReplyEnter ==
    /\ Running /\ ~guard.some
    /\ \E id \in DOMAIN peers : \E c \in InboundContents :
        /\ c.type = "Reply"
        /\ guard' = Some([id |-> id, before |-> peers,
                          writes |-> MonitoredPeer_receive_writes(peers[id], c, Now)])
        /\ event' = [kind |-> "get_mut", id |-> id]
    /\ UNCHANGED <<peers, worker_seq, waiting, resolving, tasks, close, elapsed, worker, outbox>>
    /\ UNCHANGED <<codecVars, seqVars, obsVars, tm, sel, lost, lock, poll>>

\* Worker::ping: try_get_mut finds the entry present and unlocked
PingEnter ==
    /\ Running /\ ~guard.some
    /\ \E id \in DOMAIN peers : \E next \in {Counter_next(worker_seq)} :
        /\ next.seq.kind = "Ok"
        /\ next.counter[1] <= MaxSeq + 1
        /\ worker_seq' = next.counter
        /\ guard' = Some([id |-> id, before |-> peers,
                          writes |-> Worker_ping_writes(peers[id], next.seq.val, Now)])
        /\ event' = [kind |-> "try_get_mut", id |-> id]
    /\ UNCHANGED <<peers, waiting, resolving, tasks, close, elapsed, worker, outbox>>
    /\ UNCHANGED <<codecVars, seqVars, obsVars, tm, sel, lost, lock, poll>>

\* The next write through the guard
GuardWrite ==
    /\ guard.some /\ guard.val.writes # <<>>
    /\ peers' = [peers EXCEPT ![guard.val.id] = Head(guard.val.writes)]
    /\ guard' = Some([guard.val EXCEPT !.writes = Tail(@)])
    /\ event' = [kind |-> "write", id |-> guard.val.id]
    /\ UNCHANGED <<worker_seq, waiting, resolving, tasks, close, elapsed, worker, outbox>>
    /\ UNCHANGED <<codecVars, seqVars, obsVars, tm, sel, lost, lock, poll>>

\* The guard goes out of scope
GuardDrop ==
    /\ guard.some /\ guard.val.writes = <<>>
    /\ guard' = None
    /\ event' = [kind |-> "drop", id |-> guard.val.id]
    /\ UNCHANGED <<peers, worker_seq, waiting, resolving, tasks, close, elapsed, worker, outbox>>
    /\ UNCHANGED <<codecVars, seqVars, obsVars, tm, sel, lost, lock, poll>>

\* Worker::resolve: entry(id).or_insert_with(MonitoredPeer::new) under the
\* shard's write lock; the value is built before it is put in the table.
TableInsert ==
    /\ ~guard.some
    /\ \E id \in Remote \ DOMAIN peers :
        /\ peers' = [k \in DOMAIN peers \cup {id} |->
                        IF k = id THEN MonitoredPeer_new ELSE peers[k]]
        /\ event' = [kind |-> "insert", id |-> id]
    /\ UNCHANGED <<worker_seq, waiting, resolving, tasks, close, elapsed, worker, outbox, guard>>
    /\ UNCHANGED <<codecVars, seqVars, obsVars, tm, sel, lost, lock, poll>>

\* Worker::resolve: retain drops an entry under the shard's write lock
TableRetain ==
    /\ ~guard.some
    /\ \E id \in DOMAIN peers :
        /\ peers' = [k \in DOMAIN peers \ {id} |-> peers[k]]
        /\ event' = [kind |-> "retain", id |-> id]
    /\ UNCHANGED <<worker_seq, waiting, resolving, tasks, close, elapsed, worker, outbox, guard>>
    /\ UNCHANGED <<codecVars, seqVars, obsVars, tm, sel, lost, lock, poll>>

NextTable ==
    \/ ReplyEnter
    \/ PingEnter
    \/ GuardWrite
    \/ GuardDrop
    \/ TableInsert
    \/ TableRetain
    \/ Status
    \/ Tick

SpecTable == Init /\ [][NextTable]_vars

----
\* Wire codec claims, under SpecCodec.

MagicBytes == <<102, 108, 121, 116, 114, 97, 112, 0>>   \* b"flytrap\0"
ZeroBytes(n) == [i \in 1..n |-> 0]
DeclaredLen(buf) == buf[29] + 256 * buf[30]
Discriminant(buf) == buf[31] + 256 * buf[32]
WasRead == cx_pc = "read"

\* C1 as stated: for every constructible Message m, including one whose
\* `last` is Some(Timestamp 0), Message::read of the bytes Message::write
\* produced returns Some(m).
C1_RoundTripEvery ==
    (WasRead /\ cx_tamper = "none") => cx_res = Ok(Some(cx_msg))

\* C1, amended: for every constructible Message m whose `last` is None or
\* Some(t) with t non-zero, Message::read of the bytes Message::write
\* produced returns Some(m).
C1_RoundTrip ==
    (WasRead /\ cx_tamper = "none" /\ cx_msg.contents.last # Some(U64_ZERO))
        => cx_res = Ok(Some(cx_msg))

C1_Witness ==
    /\ WasRead /\ cx_tamper = "none"
    /\ cx_msg.contents.type = "Reply" /\ cx_msg.contents.last = Some(T)
    /\ cx_msg.seq = U32_MAX /\ cx_msg.contents.received = U64_MAX
    /\ cx_res = Ok(Some(cx_msg))

\* C2: Message::read returns None for a buffer shorter than 32 bytes, one
\* whose first 8 bytes are not the magic marker, one whose sender or
\* recipient identity is zero, and one whose content discriminant is
\* neither 0x10 nor 0x11.
C2_Rejected(buf) ==
    \/ Len(buf) < 32
    \/ SubSeq(buf, 1, 8) # MagicBytes
    \/ SubSeq(buf, 9, 16) = ZeroBytes(8)
    \/ SubSeq(buf, 17, 24) = ZeroBytes(8)
    \/ Discriminant(buf) \notin {16, 17}

C2_ReadRejects == (WasRead /\ C2_Rejected(cx_buf)) => cx_res = Ok(None)

C2_Witness ==
    /\ WasRead /\ cx_tamper = "type" /\ Len(cx_buf) >= 32
    /\ Discriminant(cx_buf) = 18 /\ cx_res = Ok(None)

\* C3: Message::read returns None, without failing, whenever the declared
\* content length does not fit the bytes that remain after the length field.
C3_LengthMisfitIsNone ==
    (WasRead /\ Len(cx_buf) >= 32 /\ DeclaredLen(cx_buf) > Len(cx_buf) - 30)
        => cx_res = Ok(None)

\* C4: a datagram whose header seq field is 0, or a Reply whose `to` field
\* is 0, decodes to None: never a failure, never a Seq of value zero.
C4_ZeroSeqIsNone ==
    (/\ WasRead /\ Len(cx_buf) >= 36
     /\ \/ SubSeq(cx_buf, 25, 28) = ZeroBytes(4)
        \/ (Discriminant(cx_buf) = 17 /\ SubSeq(cx_buf, 33, 36) = ZeroBytes(4)))
        => cx_res = Ok(None)

----
\* Sequence generator claims, under SpecSeq.

\* C6: every value Counter::next returns is a non-zero Seq, the call after
\* the counter wrapped from 0xFFFFFFFF included, and next never fails.
C6_NextNeverZeroNorFails ==
    counter_out.kind # "NotCalled" => (counter_out.kind = "Ok" /\ counter_out.val # U32_ZERO)

----
\* Buffer claims, under SpecObs.

\* C8: an Observations<L> buffer never holds more than L observations;
\* adding to a buffer that already holds L removes exactly the oldest one,
\* keeps the other L - 1 in their order and appends the new one as the
\* newest; adding to a shorter buffer appends; adding is never an error.
C8_AddEvictsOldest ==
    /\ Len(obs) <= L
    /\ obs_added.some =>
        /\ Len(obs) = IF Len(obs_before) = L THEN L ELSE Len(obs_before) + 1
        /\ obs[Len(obs)] = obs_added.val
        /\ LET dropped == IF Len(obs_before) = L THEN 1 ELSE 0
           IN  \A i \in 1..(Len(obs) - 1) : obs[i] = obs_before[i + dropped]

C8_Witness ==
    /\ obs_added.some
    /\ Len(obs_before) = L /\ Len(obs) = L
    /\ obs_before[1] # obs_added.val
    /\ obs[L] = obs_added.val

----
\* Worker claims, under Spec.  `event` names the handler select! ran last and
\* what it returned; Tick alone moves the clock and Shutdown alone sends on
\* the close channel, so a step that leaves `elapsed` and `close` alone is
\* the handler `event'` names.

Handled(kind) == elapsed' = elapsed /\ close' = close /\ event'.kind = kind

WellFormedDatagrams == {Message_write(m) : m \in InboundMessages \cup ForeignMessages}

Malformed(data) == data \notin WellFormedDatagrams

Foreign(data) ==
    \E m \in InboundMessages \cup ForeignMessages : m.to # Local /\ Message_write(m) = data

\* C5: a malformed datagram (bytes that are no valid message) or a foreign
\* one (a valid message for another machine) is dropped: no reply is sent,
\* no peer's state changes, and the worker neither terminates nor panics.
C5_BadDatagramDropped ==
    [][(Handled("recv") /\ (Malformed(event'.data) \/ Foreign(event'.data)))
            => (outbox' = <<>> /\ peers' = peers /\ worker' = "running")]_vars

\* The outstanding probes of `peer` that purge_stale(now, timeout) keeps and
\* removes, written from the claim: stale means sent earlier than now - timeout.
IsStale(sent, now, timeout) == U64_lt(U64_add(sent.time, timeout).val, now)

FreshOf(deque, now, timeout) == SelectSeq(deque, LAMBDA sent : ~IsStale(sent, now, timeout))
StaleOf(deque, now, timeout) == SelectSeq(deque, LAMBDA sent : IsStale(sent, now, timeout))

LastN(seq, n) == IF Len(seq) <= n THEN seq ELSE SubSeq(seq, Len(seq) - n + 1, Len(seq))

\* A ping tick that reached the peer's entry (the entry exists and is not locked)
Pinged(id) ==
    /\ Handled("ping")
    /\ event'.id = Some(id)
    /\ id \in DOMAIN peers
    /\ event'.result \in {"Ok", "IoError", "OutOfMemory"}

\* C7: a peer's outstanding-probe deque never holds more than S entries; a
\* ping tick for a peer whose deque still holds S entries once the stale
\* ones are purged reports OutOfMemory ("not responding"), leaves the deque
\* as it was, sends no Request, and the worker keeps running.
C7_DequeBounded ==
    /\ [](\A id \in DOMAIN peers : Len(peers[id].sent) <= S)
    /\ [][\A id \in Remote :
            (Pinged(id) /\ Len(FreshOf(peers[id].sent, Now, PingTimeout)) = S)
                => /\ event'.result = "OutOfMemory"
                   /\ peers'[id].sent = peers[id].sent
                   /\ outbox' = <<>>
                   /\ worker' = "running"]_vars

C7_Witness ==
    /\ event.kind = "ping" /\ event.result = "OutOfMemory"
    /\ event.id.some /\ event.id.val \in DOMAIN peers
    /\ Len(peers[event.id.val].sent) = S
    /\ outbox = <<>>
    /\ worker = "running"

\* C9: a Reply from a known peer whose `to` is the seq of no entry in that
\* peer's outstanding-probe deque leaves the peer's observation history and
\* its deque unchanged, and creates or removes no peer entry.
C9_UnmatchedReplyIgnored ==
    [][\A data \in WellFormedDatagrams :
        LET m == Decoded[data].val.val
        IN  (/\ Handled("recv") /\ event'.data = data
             /\ m.to = Local /\ m.contents.type = "Reply"
             /\ m.from \in DOMAIN peers
             /\ \A i \in 1..Len(peers[m.from].sent) : peers[m.from].sent[i].seq # m.contents.to)
                => /\ DOMAIN peers' = DOMAIN peers
                   /\ peers'[m.from].observations = peers[m.from].observations
                   /\ peers'[m.from].sent = peers[m.from].sent]_vars

C9_Witness ==
    /\ event.kind = "recv" /\ event.result = "Ok"
    /\ event.data \in WellFormedDatagrams
    /\ LET m == Decoded[event.data].val.val
       IN  /\ m.to = Local /\ m.contents.type = "Reply"
           /\ m.from \in DOMAIN peers
           /\ peers[m.from].sent # <<>>
           /\ \A i \in 1..Len(peers[m.from].sent) : peers[m.from].sent[i].seq # m.contents.to
           /\ peers[m.from].seen = Some(Now)
           /\ peers[m.from].observations = <<>>

\* C10: purge_stale(now, timeout), as a ping tick runs it, removes from the
\* peer's deque exactly the entries sent earlier than now - timeout, adds
\* for each of them one Unavailable observation with time = now and
\* duration = now - send time, which is at least the timeout, and keeps
\* every other entry (the probe of this tick is enqueued behind them).
C10_PurgeStale ==
    [][\A id \in Remote :
        Pinged(id) =>
            LET now == Now
                stale == StaleOf(peers[id].sent, now, PingTimeout)
                fresh == FreshOf(peers[id].sent, now, PingTimeout)
                gone == [k \in 1..Len(stale) |->
                            Observation(now, Unavailable(U64_sub(now, stale[k].time).val))]
                enqueued == IF event'.result = "OutOfMemory" THEN <<>>
                            ELSE <<Sent(worker_seq, now)>>
            IN  /\ peers'[id].sent = fresh \o enqueued
                /\ peers'[id].observations = LastN(peers[id].observations \o gone, L)
                /\ \A k \in 1..Len(gone) : ~U64_lt(gone[k].status.d, PingTimeout)]_vars

C10_Witness ==
    /\ event.kind = "ping" /\ event.result = "Ok"
    /\ event.id.some /\ event.id.val \in DOMAIN peers
    /\ LET peer == peers[event.id.val]
       IN  /\ Len(peer.sent) = 1 /\ peer.sent[1].time = Now
           /\ peer.observations # <<>>
           /\ peer.observations[Len(peer.observations)].time = Now
           /\ peer.observations[Len(peer.observations)].status.tag = "Unavailable"
           /\ U64_lt(PingTimeout, peer.observations[Len(peer.observations)].status.d)

\* The entries of a deque as a bag: swap_remove_back reorders what it keeps.
BagOf(deque) == [e \in {deque[i] : i \in 1..Len(deque)} |->
                    Cardinality({i \in 1..Len(deque) : deque[i] = e})]

\* The datagram `data` is a Reply to the local node whose `to` is the seq of
\* entry `i` of the sender's deque.
ReplyMatches(data, i) ==
    LET m == Decoded[data].val.val
    IN  /\ data \in WellFormedDatagrams
        /\ m.to = Local /\ m.contents.type = "Reply"
        /\ m.from \in DOMAIN peers
        /\ i \in 1..Len(peers[m.from].sent)
        /\ peers[m.from].sent[i].seq = m.contents.to

C12_RequestAnswered ==
    [][\A data \in WellFormedDatagrams :
        LET m == Decoded[data].val.val
        IN  (/\ Handled("recv") /\ event'.data = data /\ event'.result # "IoError"
             /\ m.to = Local /\ m.contents.type = "Request"
             /\ m.from \in DOMAIN peers)
                => /\ Len(outbox') = 1
                   /\ outbox'[1].dest = m.from
                   /\ LET sent == Message_read(outbox'[1].bytes).val.val
                      IN  /\ sent.to = m.from
                          /\ sent.contents =
                                Reply(m.seq, m.contents.sent, Now, peers[m.from].seen)
                   /\ peers' = [peers EXCEPT ![m.from].seen = Some(Now)]]_vars

\* C13: after a resolve task completed successfully with reported list R,
\* the keys of the peer table are the identities of R minus the local one:
\* each reported peer that was absent is present with empty state, each
\* peer that was present and is still reported is as it was, and each peer
\* not in R is gone.  For every R, an empty one included.
C13_ResolveReconciles ==
    [][(Handled("resolved") /\ event'.ok)
        => /\ DOMAIN peers' = event'.current \ {Local}
           /\ \A id \in DOMAIN peers' :
                peers'[id] = IF id \in DOMAIN peers THEN peers[id] ELSE MonitoredPeer_new]_vars

\* C14: the local node's identity is never a key of the peer table, never
\* waits in the ping queue, and no probe Request a ping tick sends is
\* addressed to it, whatever discovery reports.
C14_LocalExcluded ==
    /\ Local \notin DOMAIN peers
    /\ \A i \in 1..Len(waiting) : waiting[i] # Local
    /\ event.kind = "ping" => \A i \in 1..Len(outbox) : outbox[i].dest # Local

C14_Witness ==
    /\ event.kind = "resolved" /\ event.ok
    /\ Local \in event.current
    /\ DOMAIN peers = event.current \ {Local}
    /\ peers # <<>>

\* C15: at most one resolve task runs at any time; a resolve tick that fires
\* while the task spawned before has not finished spawns nothing and changes
\* nothing, and the datagrams, ping ticks and shutdown the worker handles
\* meanwhile leave the task running.
C15_OneResolveTask ==
    /\ [](tasks <= 1)
    /\ [][(tasks = 1 /\ Handled("resolve_tick"))
            => /\ event'.spawned = FALSE
               /\ UNCHANGED <<peers, worker_seq, waiting, resolving, tasks, worker>>]_vars
    /\ [][(tasks = 1 /\ elapsed' = elapsed /\ event'.kind \in {"recv", "ping", "closed"})
            => tasks' = 1]_vars

C15_Witness ==
    /\ tasks = 1
    /\ event = [kind |-> "resolve_tick", spawned |-> FALSE]
    /\ worker = "running"

\* C16: any socket I/O failure in the worker (a failed receive, a failed
\* send of a Reply, a failed send of a probe Request) is fatal: the worker
\* terminates and stop() returns the error.
C16_IoFailureFatal ==
    [][((Handled("recv") \/ Handled("ping")) /\ event'.result = "IoError")
            \/ Handled("recv_error")
        => worker' = "failed" /\ Monitor_stop(worker') = "Err"]_vars

\* A step of the worker's loop: one iteration of select! that took an arm
\* other than a failed receive.
Iteration ==
    /\ elapsed' = elapsed /\ close' = close
    /\ event'.kind \in {"recv", "ping", "resolve_tick", "closed"}

\* C17 as stated: once the shutdown signal is sent, the worker's next
\* iteration of select! takes the close arm: it starts no further probe,
\* breaks, and finishes with Ok(elapsed), which stop() returns.
C17_ShutdownAtNextIteration ==
    [][(close = "sent" /\ Running /\ Iteration)
        => /\ event' = [kind |-> "closed", result |-> Ok(elapsed)]
           /\ outbox' = <<>>
           /\ Monitor_stop(worker') = "Ok"]_vars

\* C17, amended: the signal, once sent, stays pending until the worker takes
\* the close arm, which it may do after handling other events that are
\* ready (a ping tick that starts a probe among them).  Taking the close arm
\* handles nothing else: the loop breaks, run finishes with Ok(elapsed),
\* which stop() returns, and the worker sends and queues nothing afterwards
\* (a resolve task still running is not cancelled).
C17_CloseArm ==
    /\ [][close = "sent" => close' = "sent"]_vars
    /\ [][Handled("closed")
            => /\ close = "sent" /\ worker = "running"
               /\ event'.result = Ok(elapsed)
               /\ worker' = "stopped" /\ Monitor_stop(worker') = "Ok"
               /\ outbox' = <<>>
               /\ UNCHANGED <<peers, worker_seq, waiting, resolving, tasks>>]_vars
    /\ [][worker = "stopped"
            => /\ worker' = "stopped"
               /\ outbox' = <<>>
               /\ UNCHANGED <<worker_seq, waiting>>]_vars

C17_Witness ==
    /\ worker = "stopped" /\ close = "sent"
    /\ event = [kind |-> "closed", result |-> Ok(elapsed)]
    /\ elapsed > 0
    /\ \E id \in DOMAIN peers : peers[id].sent # <<>>

\* C18: status() returns one record per entry of the table and, for each
\* entry: available is true exactly when last_seen is set and is not before
\* now - idle_timeout, last_seen is the entry's last_seen, last_replied is
\* the time of the newest Available observation of its history (None when
\* there is none), and latency is what the estimator's latency() yields;
\* status() changes no peer state.
C18_StatusRecords ==
    [][Handled("status")
        => /\ peers' = peers
           /\ event'.result.kind = "Ok"
           /\ DOMAIN event'.result.val = DOMAIN peers
           /\ \A id \in DOMAIN peers :
                LET r == event'.result.val[id]
                    p == peers[id]
                    o == p.observations
                IN  /\ r.available
                        <=> (p.seen.some /\ ~U64_lt(p.seen.val, U64_sub(Now, IdleTimeout).val))
                    /\ r.last_seen = p.seen
                    /\ \/ /\ \A i \in 1..Len(o) : o[i].status.tag # "Available"
                          /\ r.last_replied = None
                       \/ \E i \in 1..Len(o) :
                            /\ o[i].status.tag = "Available"
                            /\ \A j \in (i + 1)..Len(o) : o[j].status.tag # "Available"
                            /\ r.last_replied = Some(o[i].time)
                    /\ Ok(r.latency) = Observations_latency(o)]_vars

\* C20: once the worker has ended on a socket error, what status() returns
\* is frozen: after a call made then, no step changes the records a later
\* call returns.
C20_StatusFrozen ==
    [][(worker = "failed" /\ event.kind = "status")
        => Monitor_status(peers', Now') = event.result]_vars

\* The table as it was when last no write guard was held: the complete
\* states of its entries.
Complete == IF guard.some THEN guard.val.before ELSE peers

----
\* Latency estimator claims, under SpecObs.

\* C21: latency() of a buffer without observations is no estimate; of a
\* buffer with exactly one observation it is an estimate only if that
\* observation is Available, and then average = latest = its latency and
\* time = its time.
C21_FewObservations ==
    LET r == Observations_latency(obs)
    IN  /\ Len(obs) = 0 => r = Ok(None)
        /\ Len(obs) = 1 =>
            /\ r.kind = "Ok"
            /\ r.val.some <=> obs[1].status.tag = "Available"
            /\ r.val.some =>
                /\ r.val.val.average = obs[1].status.d
                /\ r.val.val.latest = obs[1].status.d
                /\ r.val.val.time = obs[1].time

C21_Witness ==
    /\ Len(obs) = 1 /\ obs[1].status.tag = "Available"
    /\ Observations_latency(obs).val.some
    /\ Observations_latency(obs).val.val.average = obs[1].status.d

\* C22: latency() of a buffer with two or more observations is an estimate
\* exactly when at least one of them is Available; its latest and time are
\* the latency and the time of the Available observation with the greatest
\* time, and only the Available observations enter the weighted sum.
C22_SeveralObservations ==
    Len(obs) >= 2 =>
        LET r == Observations_latency(obs)
            avail == {i \in 1..Len(obs) : obs[i].status.tag = "Available"}
        IN  /\ r.kind = "Ok"
            /\ r.val.some <=> avail # {}
            /\ r.val.some =>
                /\ \E i \in avail :
                    /\ \A j \in avail : ~U64_lt(obs[i].time, obs[j].time)
                    /\ r.val.val.time = obs[i].time
                    /\ r.val.val.latest = obs[i].status.d
                /\ Len(r.val.val.average) = Cardinality(avail)
                /\ \A k \in 1..Len(r.val.val.average) :
                    \E i \in avail : r.val.val.average[k].latency = obs[i].status.d

\* The Available observations of the buffer under test
AvailableIn(buf) == {i \in 1..Len(buf) : buf[i].status.tag = "Available"}

\* C23: for two or more Available observations the average of latency() is
\* the mean weighted by exp(-(t_last - t) / (t_last - t_first)): it lies
\* between the smallest and the largest Available latency, of two
\* observations it is nearer to the newer one's latency, and for
\* (t0, 4000 ms), (t1 > t0, 3000 ms) it is at least 3200 ms and below
\* 3300 ms with latest = 3000 ms.
C23_WeightedAverage ==
    Cardinality(AvailableIn(obs)) >= 2 =>
        LET r == Observations_latency(obs)
            ms == {as_millis(obs[i].status.d) : i \in AvailableIn(obs)}
        IN  /\ r.kind = "Ok" /\ r.val.some
            /\ LET avg == Latency_average_millis(r.val.val.average)
               IN  /\ \E l \in ms : l <= avg
                   /\ \E l \in ms : avg <= l
                   /\ (Len(obs) = 2 /\ as_millis(obs[1].status.d) >= as_millis(obs[2].status.d))
                        => avg - as_millis(obs[2].status.d) <= as_millis(obs[1].status.d) - avg
                   /\ (Len(obs) = 2 /\ as_millis(obs[1].status.d) <= as_millis(obs[2].status.d))
                        => as_millis(obs[2].status.d) - avg <= avg - as_millis(obs[1].status.d)
                   /\ (/\ Len(obs) = 2
                       /\ obs[1].status.d = Seconds(4) /\ obs[2].status.d = Seconds(3))
                        => /\ 3200 <= avg /\ avg < 3300
                           /\ r.val.val.latest = Seconds(3)

\* C23's example, where latency() returns: (t0, 4000 ms), (t0 + 1 s, 3000 ms)
C23_Example ==
    /\ Len(obs) = 2
    /\ obs[1] = Observation(Clock_now(0), Available(Seconds(4)))
    /\ obs[2] = Observation(Clock_now(1), Available(Seconds(3)))
    /\ Latency_average_millis(Observations_latency(obs).val.val.average) = 3268

----
\* Timestamp arithmetic claims, under SpecTime.

\* C24: a - b of two Timestamps is the duration a - b when a >= b and the
\* zero duration when a < b; it never underflows, wraps or panics, for all
\* pairs of 64-bit values.
C24_TimestampSubSaturates ==
    tm.op = "sub" =>
        /\ tm.out.kind = "Ok"
        /\ IF U64_lt(tm.a, tm.b) THEN tm.out.val = U64_ZERO
           ELSE U64_add(tm.b, tm.out.val) = [overflow |-> FALSE, val |-> tm.a]

C24_Witness ==
    /\ tm.op = "sub" /\ tm.a = T /\ tm.b = U64_MAX
    /\ tm.out = Ok(U64_ZERO)

\* C25: t - d of a Timestamp and a Duration saturates: it is the timestamp
\* d before t when d does not exceed t and the zero timestamp when it
\* does; it never underflows, wraps silently or panics.
C25_TimestampSubDurationSaturates ==
    tm.op = "sub_duration" =>
        /\ tm.out.kind = "Ok"
        /\ IF U64_lt(tm.a, tm.b) THEN tm.out.val = U64_ZERO
           ELSE U64_add(tm.out.val, tm.b) = [overflow |-> FALSE, val |-> tm.a]

----
\* Probing claims, under SpecProbe.

\* The identities in a queue
InQueue(q) == {q[i] : i \in 1..Len(q)}

\* C26: a ping tick that finds the queue empty refills it with exactly the
\* identities of the table for which last_seen is within the idle timeout
\* of the tick time, or the history holds an Available observation, or the
\* history is not full; the first of them is the one pinged.  A peer is left
\* out exactly when none of the three holds.
C26_QueueRefill ==
    [][(Handled("ping") /\ waiting = <<>>)
        => LET filled == (IF event'.id.some THEN {event'.id.val} ELSE {}) \cup InQueue(waiting')
               recent(p) == p.seen.some /\ ~U64_lt(U64_add(p.seen.val, IdleTimeout).val, Now)
               replied(p) == \E i \in 1..Len(p.observations) :
                                p.observations[i].status.tag = "Available"
           IN  /\ filled = {id \in DOMAIN peers :
                                \/ recent(peers[id])
                                \/ replied(peers[id])
                                \/ Len(peers[id].observations) < L}
               /\ Len(waiting') = IF filled = {} THEN 0 ELSE Cardinality(filled) - 1]_vars

\* A peer left out: not seen, its history full of Unavailable observations
C26_Witness ==
    /\ event = [kind |-> "ping", id |-> None, result |-> "Ok"]
    /\ waiting = <<>>
    /\ IdA \in DOMAIN peers
    /\ ~peers[IdA].seen.some
    /\ Len(peers[IdA].observations) = L
    /\ \A i \in 1..L : peers[IdA].observations[i].status.tag = "Unavailable"

\* Every outstanding probe of the peer was sent more than the ping timeout ago
AllStale(peer) ==
    \A i \in 1..Len(peer.sent) : U64_lt(U64_add(peer.sent[i].time, PingTimeout).val, Now)

----
\* Event-select claims, under SpecSelect.

\* C28: when a datagram is ready at the same iteration of select! as a
\* resolve tick, a ping tick or the shutdown signal, the worker handles the
\* datagram before the other ready event.
C28_DatagramFirst ==
    [][(SelectReturns /\ sel.datagrams > 0) => sel'.taken = "recv"]_vars

----
\* Observation-order claims, under SpecProbe.

\* C29 as stated: of any two observations in one peer's buffer, the one
\* recorded later has a strictly later time.
C29_StrictlyOrdered ==
    \A id \in DOMAIN peers :
        LET buf == peers[id].observations
        IN  \A i, j \in 1..Len(buf) : i < j => U64_lt(buf[i].time, buf[j].time)

\* C29: each peer's observation history is ordered in time as recorded, not
\* strictly: of any two observations in one peer's buffer, the one recorded
\* later has a time that is not earlier than the other's (observations of one
\* clock reading, such as those of several stale probes purged in one ping
\* tick, carry the same time).
C29_TimeOrdered ==
    \A id \in DOMAIN peers :
        LET buf == peers[id].observations
        IN  \A i, j \in 1..Len(buf) : i < j => ~U64_lt(buf[j].time, buf[i].time)

\* A purged probe's Unavailable observation followed by a later reply's
\* Available observation
C29_Witness ==
    \E id \in DOMAIN peers :
        LET buf == peers[id].observations
        IN  /\ Len(buf) = 2
            /\ buf[1].status.tag = "Unavailable" /\ buf[2].status.tag = "Available"
            /\ U64_lt(buf[1].time, buf[2].time)

----
\* Self-healing, under SpecProbe: the peer answers every probe the model lets
\* it answer, and stays in the table.

\* A peer the worker has stopped probing: in the table, every outstanding
\* probe to it lost, none queued, and left out of every refill of the queue
\* from now on (its history is full of Unavailable observations and it was
\* not seen within the idle timeout)
Abandoned(id) ==
    /\ id \in DOMAIN peers
    /\ \A i \in 1..Len(peers[id].sent) : peers[id].sent[i].seq \in lost
    /\ id \notin InQueue(waiting)
    /\ id \notin Eligible(Now)

\* C30: a peer that has become unreachable can become responsive again: a
\* peer that stays in the table and answers every probe it receives gets a
\* new Available observation, however long it was unreachable before; so in
\* every reachable state a probe that reached it is outstanding, or one to it
\* is queued or due at a later refill of the queue.
C30_SelfHealing == \A id \in Remote : ~Abandoned(id)

\* Once abandoned, always abandoned: no step probes the peer or adds to its
\* history again
C30_NoWayBack ==
    [][\A id \in Remote :
        Abandoned(id) => peers'[id] = peers[id] /\ waiting' = waiting /\ lost' = lost]_vars

----
\* Lock contention, under SpecLock.

\* C31: a peer entry locked by a concurrent operation is never waited for
\* by the worker: on a ping tick, an incoming Request and an incoming Reply
\* the operation on that peer is skipped (ping: nothing enqueued or sent;
\* Request: last_seen not updated; Reply: no observation recorded) and the
\* worker proceeds to its next event without blocking.
C31_LockedEntrySkipped ==
    /\ [][(Locked /\ AtSelect /\ event'.kind \in {"ping", "recv", "get_mut"})
            => /\ peers' = peers
               /\ event'.kind = "ping" => outbox' = <<>>
               /\ AtSelect']_vars
    /\ [][(event'.kind = "recv" /\ event'.busy) => peers' = peers]_vars

----
\* Discovery failures, under Spec.

\* C32: when a peer-discovery query fails, the resolve task ends without
\* adding, removing or modifying any entry of the peer table, the worker is
\* unaffected (its state, counter, queue and close channel stay as they
\* were), and the query is attempted again at the next resolve tick: the
\* task's handle is finished, and a resolve tick that finds it finished
\* spawns a new task.
C32_DiscoveryFailureRetried ==
    /\ [][(tasks' = tasks - 1 /\ event'.kind = "resolved" /\ ~event'.ok)
            => /\ peers' = peers
               /\ worker' = worker /\ worker_seq' = worker_seq
               /\ waiting' = waiting /\ close' = close
               /\ resolving' = "finished"]_vars
    /\ [][(Handled("resolve_tick") /\ resolving = "finished")
            => event'.spawned /\ tasks' = tasks + 1 /\ resolving' = "running"]_vars

\* A failed query that left a table with a peer in it as it was
C32_Witness ==
    /\ event = [kind |-> "resolved", ok |-> FALSE]
    /\ resolving = "finished" /\ tasks = 0
    /\ DOMAIN peers # {}
    /\ worker = "running"

----
\* The estimator on the histories the worker produces, under SpecProbe.

\* C33: latency() is well-defined for every buffer of two or more
\* observations the worker can produce, whatever mix of Available and
\* Unavailable entries it holds and also when its oldest and newest
\* observation carry the same time: it returns an estimate or none and never
\* fails, so status() never fails.
C33_LatencyWellDefined ==
    /\ \A id \in DOMAIN peers :
            Len(peers[id].observations) >= 2
                => Observations_latency(peers[id].observations).kind = "Ok"
    /\ Monitor_status(peers, Now).kind = "Ok"

----
\* The status slot, under SpecPoll.

\* The vector is empty or the whole sorted result of one call of status()
WholeSnapshot(v) == v = <<>> \/ v \in poll.made

\* C34 as stated: the polling task publishes only complete results (a reader
\* of the slot sees the initial empty vector or the whole sorted result of a
\* single status() call, never a mix of two), readers never block the
\* monitor worker, and after the stop signal the polling task writes at most
\* one more snapshot.
C34_OneMoreSnapshot ==
    /\ [](WholeSnapshot(poll.view) /\ poll.after <= 1)
    /\ [][poll'.readers # poll.readers => UNCHANGED <<workerVars, lock>>]_vars

\* C34: the polling task publishes only complete results: a reader of the
\* slot sees the initial empty vector or the whole sorted result of a single
\* status() call, never a mix of two; readers take no lock of the monitor and
\* change nothing of the worker; and after the stop signal the polling task
\* exits at the first iteration of its loop that finds no tick due, writing
\* one more snapshot at each iteration before that finds one due (its select!
\* takes the tick before the stop signal).
C34_SnapshotsWhole ==
    /\ [][poll'.view # poll.view \/ poll'.readers < poll.readers
            => /\ WholeSnapshot(poll'.view)
               /\ poll'.view = poll.slot
               /\ \A i, j \in 1..Len(poll'.view) :
                    i < j => poll'.view[i].id < poll'.view[j].id /\ poll'.view[i].n = poll'.view[j].n
               /\ UNCHANGED <<workerVars, lock>>]_vars
    /\ [][(poll.pc = "select" /\ poll.stop = "sent" /\ poll'.pc # poll.pc)
            => IF poll.due THEN poll'.pc = "computed" /\ poll'.after = poll.after
                           ELSE poll'.pc = "done" /\ poll'.slot = poll.slot]_vars
    /\ [][poll'.after # poll.after
            => poll.pc = "writing" /\ poll'.after = poll.after + 1 /\ poll'.pc = "select"
               /\ poll'.slot = poll.updated]_vars

\* A reader holds the second snapshot, of two entries, whole and sorted,
\* and the task has exited after the stop signal
C34_Witness ==
    /\ poll.pc = "done"
    /\ Len(poll.view) = 2 /\ poll.view[1].n = 2
    /\ poll.after >= 1

----
\* The key set of the peer table, under SpecKeys.

\* The sender of a datagram that decodes to a message for this machine
SenderOf(data) == Decoded[data].val.val.from

\* C35: only discovery reconciliation changes the key set of the peer table.
\* A ping tick for an identity that is no longer in the table reports an
\* error (NotFound), sends nothing and creates no entry; a Request from a
\* sender that is not in the table creates no entry and is still answered,
\* with `last` absent; a Reply from such a sender is ignored.
C35_OnlyDiscoveryChangesKeys ==
    /\ [][DOMAIN peers' # DOMAIN peers => tasks' = tasks - 1 /\ event'.kind = "resolved" /\ event'.ok]_vars
    /\ [][(Handled("ping") /\ tasks' = tasks /\ event'.id.some /\ event'.id.val \notin DOMAIN peers)
            => event'.result = "NotFound" /\ outbox' = <<>> /\ peers' = peers]_vars
    /\ [][(Handled("recv") /\ tasks' = tasks /\ event'.result \in {"Ok", "IoError"}
           /\ SenderOf(event'.data) \notin DOMAIN peers)
            => /\ peers' = peers
               /\ IF IsRequestToLocal(event'.data)
                  THEN event'.result = "Ok"
                        => /\ Len(outbox') = 1 /\ outbox'[1].dest = SenderOf(event'.data)
                           /\ LET reply == Message_read(outbox'[1].bytes).val.val
                              IN  /\ reply.contents.type = "Reply"
                                  /\ reply.contents.to = Decoded[event'.data].val.val.seq
                                  /\ reply.contents.last = None
                  ELSE outbox' = <<>> /\ worker_seq' = worker_seq]_vars

\* A ping tick that popped a peer the resolve task had dropped meanwhile
C35_Witness ==
    /\ event.kind = "ping" /\ event.result = "NotFound"
    /\ event.id = Some(IdB) /\ IdB \notin DOMAIN peers /\ IdA \in DOMAIN peers
    /\ outbox = <<>>

----
\* One observation for each probe, under SpecOnce.

\* The Sent records of `old` that `new` holds no more
Consumed(old, new) ==
    SelectSeq(old, LAMBDA e : \A i \in 1..Len(new) : new[i] # e)

\* C36: every probe is resolved at most once.  An observation is recorded
\* only together with the removal of the probe's Sent record: a ping tick
\* records one Unavailable for each record it purges, a Reply records one
\* Available when it matches a record, which it removes, and nothing when it
\* matches none (a duplicate Reply, or one that arrives after the purge); and
\* a Seq whose record is gone is never outstanding again, since every new
\* record takes the counter's value, above every Seq given out before.
C36_ResolvedOnce ==
    /\ [][(Handled("ping") /\ event'.id.some /\ event'.id.val \in DOMAIN peers)
            => LET old == peers[event'.id.val]
                   new == peers'[event'.id.val]
                   gone == Consumed(old.sent, new.sent)
               IN  new.observations =
                        LastN(old.observations \o
                                [i \in 1..Len(gone) |->
                                    Observation(Now, Unavailable(U64_sub(Now, gone[i].time).val))],
                              L)]_vars
    /\ [][Handled("reply")
            => LET old == peers[event'.id]
                   new == peers'[event'.id]
                   gone == Consumed(old.sent, new.sent)
                   hit == {i \in 1..Len(old.sent) : old.sent[i].seq = event'.to}
               IN  IF hit = {}
                   THEN new.sent = old.sent /\ new.observations = old.observations
                   ELSE /\ Len(gone) = 1 /\ gone[1].seq = event'.to
                        /\ Len(new.sent) = Len(old.sent) - 1
                        /\ new.observations =
                             LastN(Append(old.observations,
                                          Observation(Now, Available(U64_sub(Now, gone[1].time).val))),
                                   L)]_vars
    /\ [](Outstanding(peers) \subseteq Issued)
    /\ [][Outstanding(peers') \ Outstanding(peers) \subseteq {worker_seq}]_vars

\* A Reply came for a probe that had been purged: the peer was seen, and its
\* history holds the one Unavailable observation of the purge, no more
C36_Witness ==
    /\ event.kind = "reply" /\ event.to \notin Outstanding(peers)
    /\ peers[IdA].seen.some
    /\ Len(peers[IdA].observations) = 1
    /\ peers[IdA].observations[1].status.tag = "Unavailable"

----
\* The Seq values of the outstanding probes, under SpecKeys (two peers).

\* a < b as 32-bit unsigned numbers
U32_lt(a, b) == U32_le(a, b) /\ a # b

\* The Seq values of one peer's outstanding probes
SeqsOf(peer) == {peer.sent[i].seq : i \in 1..Len(peer.sent)}

----
\* What a Reply can tell the worker, under SpecOnce.

\* The Seq values a probe can carry here
ProbeSeqs == {U32(k, b * 16) : k \in 1..(MaxProbes + 1), b \in WorkerSeedBytes}

\* Replies a peer may send to acknowledge the probe `to`: one, and four
\* that differ from it in the header seq, in `sent`, in `received`, in `last`
RepliesTo(from, to) ==
    {Message(from, Local, U32(7, 0), Reply(to, T, T, None)),
     Message(from, Local, U32(1, 1), Reply(to, T, T, None)),
     Message(from, Local, U32(7, 0), Reply(to, U64_ZERO, T, None)),
     Message(from, Local, U32(7, 0), Reply(to, T, U64_MAX, None)),
     Message(from, Local, U32(7, 0), Reply(to, T, T, Some(T)))}

\* Each of them as Worker::receive reads it from the socket
RepliesRead ==
    [to \in ProbeSeqs |->
        {Message_read(Message_write(m)) : m \in RepliesTo(IdA, to)}]

\* C38: what a Reply changes depends on its sender, on its `to`, on the
\* local clock and on the local Sent record only: whichever header seq,
\* `sent`, `received` and `last` the Reply carries, the peer's entry after
\* the step (seen, outstanding deque, observations and with them the
\* latency) is the same.
C38_ReplyContentsIgnored ==
    [][Handled("reply")
        => /\ Cardinality(RepliesRead[event'.to]) = 5
           /\ \A read \in RepliesRead[event'.to] :
                /\ read.kind = "Ok" /\ read.val.some
                /\ read.val.val.from = event'.id /\ read.val.val.to = Local
                /\ read.val.val.contents.type = "Reply"
                /\ peers'[event'.id] =
                     MonitoredPeer_receive(peers[event'.id], read.val.val.contents, Now)]_vars

\* A probe sent at 0 s was answered at 2 s: the observation carries the two
\* seconds of the local clock, whatever the Reply said
C38_Witness ==
    /\ event.kind = "reply" /\ event.id = IdA
    /\ peers[IdA].observations # <<>>
    /\ peers[IdA].observations[Len(peers[IdA].observations)] =
            Observation(Clock_now(2), Available(Seconds(2)))

----
\* The order of the probes, under SpecKeys (two peers).

\* C39: probe scheduling is round-robin per refill.  The queue never holds a
\* peer twice; a ping tick that finds the queue non-empty selects its head
\* and leaves the rest, so nothing is refilled before the queue is empty and
\* every queued peer is selected before the next refill; a tick that finds
\* it empty selects one eligible peer and queues each of the others exactly
\* once; and no other step touches the queue.
C39_RoundRobin ==
    /\ [](\A i, j \in 1..Len(waiting) : i # j => waiting[i] # waiting[j])
    /\ [][(Handled("ping") /\ waiting # <<>>)
            => event'.id = Some(Head(waiting)) /\ waiting' = Tail(waiting)]_vars
    /\ [][(Handled("ping") /\ waiting = <<>>)
            => IF Eligible(Now) = {} THEN event'.id = None /\ waiting' = <<>>
               ELSE /\ event'.id.some
                    /\ {event'.id.val} \cup InQueue(waiting') = Eligible(Now)
                    /\ Len(waiting') + 1 = Cardinality(Eligible(Now))]_vars
    /\ [][event'.kind # "ping" => waiting' = waiting]_vars

\* The second tick of a round: both peers were probed by the worker's first
\* two ticks, IdB from the queue the first tick had filled
C39_Witness ==
    /\ event.kind = "ping" /\ event.id = Some(IdB) /\ waiting = <<>>
    /\ DOMAIN peers = {IdA, IdB}
    /\ peers[IdA].sent # <<>> /\ peers[IdB].sent # <<>>
    /\ worker_seq[1] = 3

----
\* Shutting down, under SpecStopFair.

\* C40: the shutdown signal is sent at most once and a call never fails:
\* shutdown() and stop() send only while the handle still holds the sender,
\* which the first of them takes, and return normally whether or not the
\* worker is still there to receive; once the signal is sent, or the handle
\* dropped without it, the close channel is resolved and the worker leaves
\* its loop.
C40_ShutdownOnce ==
    /\ [][event'.kind \in {"shutdown", "stop"}
            => /\ event'.result = "Ok"
               /\ event'.signals = (IF close = "open" THEN 1 ELSE 0)
               /\ close' # "open"
               /\ UNCHANGED <<peers, worker_seq, waiting, worker>>]_vars
    /\ [][close # "open" => close' \in {close, "awaited"}]_vars
    /\ (close # "open") ~> (worker # "running")

\* The handle was dropped without shutdown(), and the worker left its loop
\* through the close arm
C40_Witness ==
    /\ close = "dropped"
    /\ worker = "stopped" /\ event.kind = "closed"

====
